---- MODULE Spec2Model ----
(***************************************************************************)
(* A model of src/src/quoting.js, the port of gnulib's quotearg: the UTF-8 *)
(* decoder utf8ToWideChar, the classifier iswprint and the quoting engine  *)
(* quotearg_buffer_restyled with its retry and minimization re-runs.       *)
(*                                                                         *)
(* Bytes are the integers 0..255 and a buffer is a sequence of bytes,      *)
(* addressed from 0 as in the source (At).  An output character is a code  *)
(* point; a JavaScript string is a sequence of code points, and the output *)
(* accumulator `buffer` is a sequence of such strings (the units pushed by *)
(* store), joined at the end.                                              *)
(***************************************************************************)
EXTENDS Integers, Sequences, FiniteSets, TLC

\* ------------------------------------------------------------------ bounds
\* longest input buffer handed to the engine
MaxArgLen == 3
\* longest buffer handed to the decoder alone
MaxBufLen == 4

\* the number of engine calls one process makes
MaxCalls == 3

\* --------------------------------------------------------------- helpers
At(buffer, index) == buffer[index + 1]

Min2(a, b) == IF a <= b THEN a ELSE b

InRange(lo, b, hi) == lo <= b /\ b <= hi

\* the sequences over S of length at most n
SeqsUpTo(S, n) == UNION {[1..k -> S] : k \in 0..n}

\* Array.prototype.join(''): the units in order; undefined joins as ''
undefined == << -1 >>

RECURSIVE Join(_)
Join(units) ==
    IF units = << >> THEN << >>
    ELSE (IF Head(units) = undefined THEN << >> ELSE Head(units))
         \o Join(Tail(units))

\* ------------------------------------------------------- utf8ToWideChar
Null == [isNull |-> TRUE]

\* the decoded code point of the accepted sequence buffer[startIndex, next)
DecodeCodePoint(buffer, startIndex, next) ==
    LET n  == next - startIndex
        b0 == At(buffer, startIndex)
    IN  CASE n = 1 -> b0
          [] n = 2 -> (b0 - 192) * 64 + (At(buffer, startIndex + 1) - 128)
          [] n = 3 -> (b0 - 224) * 4096
                      + (At(buffer, startIndex + 1) - 128) * 64
                      + (At(buffer, startIndex + 2) - 128)
          [] OTHER -> (b0 - 240) * 262144
                      + (At(buffer, startIndex + 1) - 128) * 4096
                      + (At(buffer, startIndex + 2) - 128) * 64
                      + (At(buffer, startIndex + 3) - 128)

\* three-byte class with the second byte in lo1..hi1 (the source's
\* "index + 2 >= goal" test first, then b1, then b2)
Match3(buffer, index, lo1, hi1) ==
    IF index + 2 >= Len(buffer) THEN -1
    ELSE IF ~InRange(lo1, At(buffer, index + 1), hi1) THEN -1
    ELSE IF ~InRange(128, At(buffer, index + 2), 191) THEN -1
    ELSE index + 3

Match4(buffer, index, lo1, hi1) ==
    IF index + 3 >= Len(buffer) THEN -1
    ELSE IF ~InRange(lo1, At(buffer, index + 1), hi1) THEN -1
    ELSE IF ~InRange(128, At(buffer, index + 2), 191) THEN -1
    ELSE IF ~InRange(128, At(buffer, index + 3), 191) THEN -1
    ELSE index + 4

\* the do { ... } while (false) block: the index after the sequence that
\* starts at index, or -1 (next === null).  The branches are tried in the
\* order of the source.
MatchAt(buffer, index) ==
    LET b == At(buffer, index)
    IN  IF InRange(0, b, 126) THEN index + 1
        ELSE IF InRange(194, b, 223) THEN
            (IF index + 1 >= Len(buffer) THEN -1
             ELSE IF ~InRange(128, At(buffer, index + 1), 191) THEN -1
             ELSE index + 2)
        ELSE IF b = 224 THEN Match3(buffer, index, 160, 191)
        ELSE IF InRange(225, b, 239) THEN
            (IF b = 237 THEN -1 ELSE Match3(buffer, index, 128, 191))
        ELSE IF b = 237 THEN Match3(buffer, index, 128, 159)
        ELSE IF b = 240 THEN Match4(buffer, index, 144, 191)
        ELSE IF InRange(241, b, 243) THEN Match4(buffer, index, 128, 191)
        ELSE IF b = 244 THEN Match4(buffer, index, 128, 143)
        ELSE -1

\* a scan that would report the bytes left over instead of null
RECURSIVE ScanFromRemaining(_, _, _)
ScanFromRemaining(buffer, startIndex, index) ==
    IF index >= Len(buffer)
    THEN (IF startIndex < Len(buffer)
          THEN [currentBytes |-> Len(buffer) - startIndex] ELSE Null)
    ELSE LET next == MatchAt(buffer, index)
         IN  IF next # -1 THEN
                 (IF index = startIndex
                  THEN [currentBytes  |-> next - startIndex,
                        currentString |->
                            << DecodeCodePoint(buffer, startIndex, next) >>]
                  ELSE [currentBytes |-> index - startIndex])
             ELSE ScanFromRemaining(buffer, startIndex, index + 1)

RECURSIVE ScanFrom(_, _, _)
ScanFrom(buffer, startIndex, index) ==
    IF index >= Len(buffer) THEN Null
    ELSE LET next == MatchAt(buffer, index)
         IN  IF next # -1 THEN
                 (IF index = startIndex
                  THEN [currentBytes  |-> next - startIndex,
                        currentString |->
                            << DecodeCodePoint(buffer, startIndex, next) >>]
                  ELSE [currentBytes |-> index - startIndex])
             ELSE ScanFrom(buffer, startIndex, index + 1)

utf8ToWideChar(buffer, startIndex) == ScanFrom(buffer, startIndex, startIndex)

\* ------------------------------------------------------------- iswprint
\* /^[^\p{Cc}\p{Cs}\p{Zl}\p{Zp}]$/u on a string of one code point
iswprint(ch) ==
    /\ Len(ch) = 1
    /\ ~InRange(0, ch[1], 31)
    /\ ~InRange(127, ch[1], 159)
    /\ ~InRange(55296, ch[1], 57343)
    /\ ch[1] \notin {8232, 8233}

\* ------------------------------------------------ Buffer.toString('utf8')
\* the number of bytes after position p (1-based) that continue a sequence
\* needing `need` more bytes, the first of them in lo1..hi1
RECURSIVE ContinuationRun(_, _, _, _, _)
ContinuationRun(bytes, p, need, lo1, hi1) ==
    IF need = 0 \/ p > Len(bytes) \/ ~InRange(lo1, bytes[p], hi1) THEN 0
    ELSE 1 + ContinuationRun(bytes, p + 1, need - 1, 128, 191)

\* how many continuation bytes the lead byte b asks for, and the range of
\* the first one; 0 for a byte that stands alone
LeadNeed(b) ==
    CASE InRange(194, b, 223) -> [need |-> 1, lo |-> 128, hi |-> 191]
      [] b = 224               -> [need |-> 2, lo |-> 160, hi |-> 191]
      [] b = 237               -> [need |-> 2, lo |-> 128, hi |-> 159]
      [] InRange(225, b, 239)  -> [need |-> 2, lo |-> 128, hi |-> 191]
      [] b = 240               -> [need |-> 3, lo |-> 144, hi |-> 191]
      [] InRange(241, b, 243)  -> [need |-> 3, lo |-> 128, hi |-> 191]
      [] b = 244               -> [need |-> 3, lo |-> 128, hi |-> 143]
      [] OTHER                 -> [need |-> 0, lo |-> 0, hi |-> 0]

\* the platform's UTF-8 decoding of a byte range: a well-formed sequence
\* gives its code point, and each maximal ill-formed part gives U+FFFD
RECURSIVE Utf8Decode(_, _)
Utf8Decode(bytes, p) ==
    IF p > Len(bytes) THEN << >>
    ELSE LET b == bytes[p]
             n == LeadNeed(b)
             k == ContinuationRun(bytes, p + 1, n.need, n.lo, n.hi)
         IN  IF b <= 127 THEN << b >> \o Utf8Decode(bytes, p + 1)
             ELSE IF n.need = 0 THEN << 65533 >> \o Utf8Decode(bytes, p + 1)
             ELSE IF k = n.need
                  THEN << DecodeCodePoint(bytes, p - 1, p + n.need) >>
                       \o Utf8Decode(bytes, p + 1 + n.need)
                  ELSE << 65533 >> \o Utf8Decode(bytes, p + 1 + k)

\* arg.toString('utf8', start, end)
BufferToString(arg, start, end) ==
    Utf8Decode(SubSeq(arg, start + 1, Min2(end, Len(arg))), 1)

\* String.prototype.length: UTF-16 code units
RECURSIVE StrLength(_)
StrLength(str) ==
    IF str = << >> THEN 0
    ELSE (IF Head(str) > 65535 THEN 2 ELSE 1) + StrLength(Tail(str))

\* ------------------------------------------------------- quoteUtils
QA_ELIDE_NULL_BYTES == 1
QA_ELIDE_OUTER_QUOTES == 2
QA_SPLIT_TRIGRAPHS == 4

\* flags & bit
HasFlag(flags, bit) == (flags \div bit) % 2 = 1

\* flags & ~bit
ClearFlag(flags, bit) == IF HasFlag(flags, bit) THEN flags - bit ELSE flags

\* flags | bit
SetFlag(flags, bit) == IF HasFlag(flags, bit) THEN flags ELSE flags + bit

quotingStyles ==
    {"literal", "shell", "shell_always", "shell_escape",
     "shell_escape_always", "c", "c_maybe", "escape", "locale", "clocale"}

\* the styles preSwitch has a case for
EnumeratedStyles == quotingStyles \cup {"custom"}

\* replacement: null
null == << -2 >>

\* q.prototype.initialize with full: true and no overrides
DefaultOptions ==
    [style |-> "literal", flags |-> 0, quoteTheseToo |-> {},
     leftQuote |-> << >>, rightQuote |-> << >>, replacement |-> null]

\* a lookup that would give the apostrophe under clocale as well
gettextQuoteApostrophes(msgid, s, cache, probe) ==
    LET miss  == cache \in {"undefined", ""}
        threw == miss /\ probe = "throws"
        after == IF miss /\ ~threw THEN probe ELSE cache
    IN  [mark   |-> IF after = "utf-8"
                    THEN (IF msgid = << 96 >> THEN << 8216 >> ELSE << 8217 >>)
                    ELSE << 39 >>,
         cache  |-> after,
         probes |-> IF miss THEN 1 ELSE 0,
         threw  |-> threw]

\* ---- gettextQuote: the quote mark for msgid under style s.  cache is
\* localeCharmapCache; probe is what `locale charmap` answers ("throws" when
\* execSync fails).  Gives the mark, the cache afterwards, the number of
\* probes run and whether the probe threw.
gettextQuote(msgid, s, cache, probe) ==
    LET miss  == cache \in {"undefined", ""}
        threw == miss /\ probe = "throws"
        after == IF miss /\ ~threw THEN probe ELSE cache
    IN  [mark   |-> IF after = "utf-8"
                    THEN (IF msgid = << 96 >> THEN << 8216 >> ELSE << 8217 >>)
                    ELSE IF s = "clocale" THEN << 34 >>
                    ELSE << 39 >>,
         cache  |-> after,
         probes |-> IF miss THEN 1 ELSE 0,
         threw  |-> threw]

\* ---- the frame of one invocation of quotearg_buffer_restyled: its
\* arguments and its locals.  sig is the value thrown inside the try block
\* ("none" while nothing is thrown); flow is how the switch was left.
NewFrame(arg, q, maxResultLength, depth) ==
    [arg |-> arg, q |-> q, maxResultLength |-> maxResultLength,
     depth |-> depth,
     quoting_style |-> q.style,
     leftQuote |-> q.leftQuote, rightQuote |-> q.rightQuote,
     quote_string |-> undefined,
     backslash_escapes |-> FALSE,
     elide_outer_quotes |-> HasFlag(q.flags, QA_ELIDE_OUTER_QUOTES),
     pending_shell_escape_end |-> FALSE,
     encountered_single_quote |-> FALSE,
     all_c_and_shell_quote_compat |-> TRUE,
     buffer |-> << >>, c |-> << >>,
     is_right_quote |-> FALSE, escaping |-> FALSE,
     c_and_shell_quote_compat |-> FALSE,
     i |-> 0, sig |-> "none", flow |-> "break"]

Throw(f, what) == IF f.sig = "none" THEN [f EXCEPT !.sig = what] ELSE f

\* a store that would pay no heed to maxResultLength
storeUncapped(f, c) ==
    IF f.sig # "none" THEN f ELSE [f EXCEPT !.buffer = Append(@, c)]

store(f, c) ==
    IF f.sig # "none" THEN f
    ELSE IF f.maxResultLength < 0 \/ Len(f.buffer) < f.maxResultLength
         THEN [f EXCEPT !.buffer = Append(@, c)]
         ELSE f

\* a start_esc that would open a run whether or not one is pending
start_escAlwaysOpens(f) ==
    IF f.sig # "none" THEN f
    ELSE IF f.elide_outer_quotes THEN Throw(f, "force_outer_quoting_style")
    ELSE LET f1 == [f EXCEPT !.escaping = TRUE]
             f2 == IF f1.quoting_style = "shell_always"
                   THEN [store(f1, << 39, 36, 39 >>)
                            EXCEPT !.pending_shell_escape_end = TRUE]
                   ELSE f1
         IN  store(f2, << 92 >>)

start_esc(f) ==
    IF f.sig # "none" THEN f
    ELSE IF f.elide_outer_quotes THEN Throw(f, "force_outer_quoting_style")
    ELSE LET f1 == [f EXCEPT !.escaping = TRUE]
             f2 == IF f1.quoting_style = "shell_always"
                      /\ ~f1.pending_shell_escape_end
                   THEN [store(f1, << 39, 36, 39 >>)
                            EXCEPT !.pending_shell_escape_end = TRUE]
                   ELSE f1
         IN  store(f2, << 92 >>)

end_esc(f) ==
    IF f.sig # "none" THEN f
    ELSE IF f.pending_shell_escape_end /\ ~f.escaping
         THEN [store(f, << 39, 39 >>) EXCEPT !.pending_shell_escape_end = FALSE]
         ELSE f

store_c(f) ==
    IF f.sig # "none" THEN f
    ELSE LET f1 == store(end_esc(f), f.c)
         IN  IF ~f1.c_and_shell_quote_compat
             THEN [f1 EXCEPT !.all_c_and_shell_quote_compat = FALSE]
             ELSE f1

store_escape(f) == store_c(start_esc(f))

\* ---- preSwitch: the style resolution, with the fall-throughs of the source
PreSwitchC(f) ==
    LET f1 == IF ~f.elide_outer_quotes THEN store(f, << 34 >>) ELSE f
    IN  [f1 EXCEPT !.backslash_escapes = TRUE, !.quote_string = << 34 >>]

PreSwitchShellAlways(f) ==
    LET f1 == [f EXCEPT !.quoting_style = "shell_always"]
        f2 == IF ~f1.elide_outer_quotes THEN store(f1, << 39 >>) ELSE f1
    IN  [f2 EXCEPT !.quote_string = << 39 >>]

PreSwitchShellEscapeAlways(f) ==
    PreSwitchShellAlways(
        IF ~f.elide_outer_quotes
        THEN [f EXCEPT !.backslash_escapes = TRUE] ELSE f)

\* a case 'shell' that would not switch elision on
PreSwitchShellKeepElide(f) == PreSwitchShellEscapeAlways(f)

PreSwitchShell(f) ==
    PreSwitchShellEscapeAlways([f EXCEPT !.elide_outer_quotes = TRUE])

\* locale, clocale and custom; g1 and g2 are the two gettextQuote lookups
PreSwitchLocale(f, g1, g2) ==
    LET f0 == IF f.quoting_style # "custom"
              THEN (IF g1.threw \/ g2.threw THEN Throw(f, "Error")
                    ELSE [f EXCEPT !.leftQuote = g1.mark,
                                   !.rightQuote = g2.mark])
              ELSE f
        f1 == IF ~f0.elide_outer_quotes THEN store(f0, f0.leftQuote) ELSE f0
    IN  IF f0.sig # "none" THEN f0
        ELSE [f1 EXCEPT !.backslash_escapes = TRUE,
                        !.quote_string = f1.rightQuote]

\* a preSwitch that would take every style for literal
preSwitchAsLiteral(f, cache, probe) ==
    [frame  |-> [f EXCEPT !.elide_outer_quotes = FALSE],
     cache  |-> cache,
     probes |-> 0]

\* preSwitch on the frame f; gives the frame, localeCharmapCache afterwards
\* and the number of probes run
preSwitch(f, cache, probe) ==
    LET style == f.q.style
        g1 == gettextQuote(<< 96 >>, f.quoting_style, cache, probe)
        g2 == gettextQuote(<< 39 >>, f.quoting_style, g1.cache, probe)
        lookups == style \in {"locale", "clocale"}
        frame ==
            CASE style = "c_maybe" ->
                    PreSwitchC([f EXCEPT !.quoting_style = "c",
                                         !.elide_outer_quotes = TRUE])
              [] style = "c" -> PreSwitchC(f)
              [] style = "escape" ->
                    [f EXCEPT !.backslash_escapes = TRUE,
                              !.elide_outer_quotes = FALSE]
              [] style \in {"locale", "clocale", "custom"} ->
                    PreSwitchLocale(f, g1, g2)
              [] style = "shell_escape" ->
                    PreSwitchShell([f EXCEPT !.backslash_escapes = TRUE])
              [] style = "shell" -> PreSwitchShell(f)
              [] style = "shell_escape_always" -> PreSwitchShellEscapeAlways(f)
              [] style = "shell_always" -> PreSwitchShellAlways(f)
              [] style = "literal" -> [f EXCEPT !.elide_outer_quotes = FALSE]
              [] OTHER -> Throw(f, "Error")
    IN  [frame  |-> frame,
         cache  |-> IF ~lookups THEN cache
                    ELSE IF g1.threw THEN g1.cache ELSE g2.cache,
         probes |-> IF ~lookups THEN 0
                    ELSE IF g1.threw THEN g1.probes
                    ELSE g1.probes + g2.probes]

\* ---- one iteration of the for loop over arg
IsDigit(b) == InRange(48, b, 57)

\* `000${n.toString(8)}`.substr(-3)
Octal3(n) == << 48 + (n \div 64), 48 + ((n \div 8) % 8), 48 + (n % 8) >>

Break(f) == [f EXCEPT !.flow = "break"]

Continue(f) == [f EXCEPT !.flow = "continue"]

\* the right-quote lookahead at the head of the loop body
RightQuoteLookahead(f) ==
    IF /\ f.backslash_escapes
       /\ f.quoting_style # "shell_always"
       /\ f.quote_string # undefined
       /\ f.quote_string # << >>
       /\ f.i + StrLength(f.quote_string) <= Len(f.arg)
       /\ BufferToString(f.arg, f.i, f.i + StrLength(f.quote_string))
            = f.quote_string
    THEN (IF f.elide_outer_quotes
          THEN Throw(f, "force_outer_quoting_style")
          ELSE [f EXCEPT !.is_right_quote = TRUE])
    ELSE f

\* a NUL case that would never pad the escape with 00
CaseNulNoPad(f) ==
    IF f.backslash_escapes
    THEN Break([start_esc(f) EXCEPT !.c = << 48 >>])
    ELSE IF HasFlag(f.q.flags, QA_ELIDE_NULL_BYTES) THEN Continue(f)
    ELSE Break(f)

\* case '\x00'
CaseNul(f) ==
    IF f.backslash_escapes THEN
        LET f1 == start_esc(f)
            f2 == IF /\ f1.quoting_style # "shell_always"
                     /\ f1.i + 1 < Len(f1.arg)
                     /\ IsDigit(At(f1.arg, f1.i + 1))
                  THEN store(f1, << 48, 48 >>)
                  ELSE f1
        IN  Break([f2 EXCEPT !.c = << 48 >>])
    ELSE IF HasFlag(f.q.flags, QA_ELIDE_NULL_BYTES) THEN Continue(f)
    ELSE Break(f)

\* the third characters of the trigraphs: ! ' ( ) - / < = >
TrigraphThird == {33, 39, 40, 41, 45, 47, 60, 61, 62}

\* a '?' case that would never split a trigraph
CaseQuestionNoSplit(f) ==
    IF f.quoting_style = "shell_always" /\ f.elide_outer_quotes
    THEN Throw(f, "force_outer_quoting_style")
    ELSE Break(f)

\* case '?'
CaseQuestion(f) ==
    IF f.quoting_style = "shell_always" THEN
        (IF f.elide_outer_quotes
         THEN Throw(f, "force_outer_quoting_style")
         ELSE Break(f))
    ELSE IF /\ f.quoting_style = "c"
            /\ HasFlag(f.q.flags, QA_SPLIT_TRIGRAPHS)
            /\ f.i + 2 < Len(f.arg)
            /\ At(f.arg, f.i + 1) = 63
            /\ At(f.arg, f.i + 2) \in TrigraphThird
    THEN (IF f.elide_outer_quotes
          THEN Throw(f, "force_outer_quoting_style")
          ELSE Break(store([f EXCEPT !.c = << At(f.arg, f.i + 2) >>,
                                     !.i = @ + 2],
                           << 63, 34, 34, 63 >>)))
    ELSE Break(f)

\* the letter of the short escape of byte b: \\ n r t a b f v
EscLetter(b) ==
    CASE b = 92 -> 92 [] b = 10 -> 110 [] b = 13 -> 114 [] b = 9 -> 116
      [] b = 7 -> 97  [] b = 8 -> 98   [] b = 12 -> 102 [] b = 11 -> 118

\* case '\\', then '\n' '\r' '\t', then '\x07' '\b' '\f' '\v', falling
\* through from each group to the next
CaseEscapeChar(f) ==
    LET b == At(f.arg, f.i)
    IN  IF b = 92 /\ f.quoting_style = "shell_always" THEN
            (IF f.elide_outer_quotes
             THEN Throw(f, "force_outer_quoting_style")
             ELSE Continue(store_c(f)))
        ELSE IF /\ b = 92
                /\ f.backslash_escapes
                /\ f.elide_outer_quotes
                /\ f.quote_string # << >>
        THEN Continue(store_c(f))
        ELSE IF /\ b \in {92, 10, 13, 9}
                /\ f.quoting_style = "shell_always"
                /\ f.elide_outer_quotes
        THEN Throw(f, "force_outer_quoting_style")
        ELSE IF f.backslash_escapes
        THEN Continue(store_escape([f EXCEPT !.c = << EscLetter(b) >>]))
        ELSE Break(f)

\* ! " $ & ( ) * ; < = > [ ^ ` |
ShellSpecial == {33, 34, 36, 38, 40, 41, 42, 59, 60, 61, 62, 91, 94, 96, 124}

\* a shell-special case that would never force outer quotes
CaseShellSpecialNoRetry(f) ==
    LET b == At(f.arg, f.i)
    IN  IF b = 32 \/ (b \in {35, 126, 123, 125} /\ f.i = 0 /\ Len(f.arg) # 1)
        THEN Break([f EXCEPT !.c_and_shell_quote_compat = TRUE])
        ELSE Break(f)

\* case '{' '}', then '#' '~', then ' ', then the shell special characters
CaseShellSpecial(f) ==
    LET b == At(f.arg, f.i)
        f1 == IF \/ b = 32
                 \/ (b \in {35, 126} /\ f.i = 0)
                 \/ (b \in {123, 125} /\ Len(f.arg) # 1 /\ f.i = 0)
              THEN [f EXCEPT !.c_and_shell_quote_compat = TRUE]
              ELSE f
    IN  IF b \in {123, 125} /\ Len(f.arg) = 1 THEN Break(f)
        ELSE IF b \in {123, 125, 35, 126} /\ f.i # 0 THEN Break(f)
        ELSE IF f1.quoting_style = "shell_always" /\ f1.elide_outer_quotes
        THEN Throw(f1, "force_outer_quoting_style")
        ELSE Break(f1)

\* case '\''
CaseSingleQuote(f) ==
    LET f1 == [f EXCEPT !.encountered_single_quote = TRUE,
                        !.c_and_shell_quote_compat = TRUE]
    IN  IF f1.quoting_style = "shell_always" THEN
            (IF f1.elide_outer_quotes
             THEN Throw(f1, "force_outer_quoting_style")
             ELSE Break([store(f1, << 39, 92, 39 >>)
                            EXCEPT !.pending_shell_escape_end = FALSE]))
        ELSE Break(f1)

\* % + , - . / 0-9 : A-Z ] _ a-z
NormalChars ==
    {37, 43, 44, 45, 46, 47} \cup (48..58) \cup (65..90) \cup {93, 95}
    \cup (97..122)

CaseNormal(f) == Break([f EXCEPT !.c_and_shell_quote_compat = TRUE])

\* default: the multibyte case.  A null result of utf8ToWideChar leaves
\* printable true, and reading result.currentBytes then throws a TypeError.
CaseDefault(f) ==
    LET result == utf8ToWideChar(f.arg, f.i)
        printable ==
            IF result # Null
            THEN (IF "currentString" \in DOMAIN result
                  THEN iswprint(result.currentString)
                  ELSE FALSE)
            ELSE TRUE
        f1 == [f EXCEPT !.c_and_shell_quote_compat = printable]
    IN  IF result = Null THEN Throw(f1, "TypeError")
        ELSE IF result.currentBytes >= 1 /\ printable THEN
            LET f2 == [f1 EXCEPT !.c = result.currentString,
                                 !.i = @ + result.currentBytes - 1]
                f3 == IF f2.is_right_quote
                      THEN [store(f2, << 92 >>) EXCEPT !.is_right_quote = FALSE]
                      ELSE f2
            IN  Continue(store(end_esc(f3), f3.c))
        ELSE IF f1.backslash_escapes /\ ~printable THEN
            LET f2 == start_esc(f1)
            IN  Continue(store_c([f2 EXCEPT !.c = Octal3(At(f.arg, f.i))]))
        ELSE
            Continue(store_c(
                IF f1.q.replacement # null
                THEN [f1 EXCEPT !.c = f1.q.replacement] ELSE f1))

\* switch (c = charAt(i))
SwitchChar(f) ==
    LET b == At(f.arg, f.i)
        f1 == [f EXCEPT !.c = << b >>]
    IN  CASE b = 0 -> CaseNul(f1)
          [] b = 63 -> CaseQuestion(f1)
          [] b \in {92, 10, 13, 9, 7, 8, 12, 11} -> CaseEscapeChar(f1)
          [] b \in {123, 125, 35, 126, 32} \cup ShellSpecial ->
                CaseShellSpecial(f1)
          [] b = 39 -> CaseSingleQuote(f1)
          [] b \in NormalChars -> CaseNormal(f1)
          [] OTHER -> CaseDefault(f1)

\* after the switch: the quoteTheseToo check, then store_escape or store_c
QuoteTheseTooCheck(f) ==
    LET prereq1 == f.backslash_escapes /\ f.quoting_style # "shell_always"
        prereq2 == prereq1 \/ f.elide_outer_quotes
    IN  IF ~(prereq2 /\ f.c \in f.q.quoteTheseToo) /\ ~f.is_right_quote
        THEN store_c(f)
        ELSE store_escape(f)

\* the loop body at index f.i, and the i++ that follows it
ScanChar(f) ==
    LET f0 == [f EXCEPT !.is_right_quote = FALSE, !.escaping = FALSE,
                        !.c_and_shell_quote_compat = FALSE]
        f1 == RightQuoteLookahead(f0)
        f2 == IF f1.sig # "none" THEN f1 ELSE SwitchChar(f1)
        f3 == IF f2.sig # "none" \/ f2.flow = "continue" THEN f2
              ELSE QuoteTheseTooCheck(f2)
    IN  IF f3.sig # "none" THEN f3 ELSE [f3 EXCEPT !.i = @ + 1]

\* an end of loop that would lack the check for an empty accumulator
AfterLoopNoEmptyCheck(f) ==
    IF /\ f.quoting_style = "shell_always"
       /\ ~f.elide_outer_quotes
       /\ f.encountered_single_quote
       /\ f.all_c_and_shell_quote_compat
    THEN [f EXCEPT !.flow = "minimize"]
    ELSE [(IF f.quote_string # << >> /\ ~f.elide_outer_quotes
           THEN store(f, f.quote_string) ELSE f)
            EXCEPT !.flow = "return"]

\* ---- after the loop: the empty check, the single-quote minimization and
\* the closing quote.  flow tells how the attempt ends: "minimize" for the
\* recursive call with style c, "return" for buffer.join('').
AfterLoop(f) ==
    IF /\ Len(f.buffer) = 0
       /\ f.quoting_style = "shell_always"
       /\ f.elide_outer_quotes
    THEN Throw(f, "force_outer_quoting_style")
    ELSE IF /\ f.quoting_style = "shell_always"
            /\ ~f.elide_outer_quotes
            /\ f.encountered_single_quote
            /\ f.all_c_and_shell_quote_compat
    THEN [f EXCEPT !.flow = "minimize"]
    ELSE [(IF f.quote_string # << >> /\ ~f.elide_outer_quotes
           THEN store(f, f.quote_string) ELSE f)
            EXCEPT !.flow = "return"]

\* a minimization that would hand the scan to c_maybe instead of c
MinimizeOptionsMaybe(f) == [f.q EXCEPT !.style = "c_maybe"]

\* q.clone({style: 'c'})
MinimizeOptions(f) == [f.q EXCEPT !.style = "c"]

\* retry options that would keep ELIDE_OUTER_QUOTES set
RetryOptionsKeepFlags(f) ==
    [f.q EXCEPT
        !.style = IF f.quoting_style = "shell_always" /\ f.backslash_escapes
                  THEN "shell_escape_always" ELSE f.quoting_style,
        !.quoteTheseToo = {}]

\* retry options that would keep the quoteTheseToo of the attempt
RetryOptionsKeepToo(f) ==
    [f.q EXCEPT
        !.style = IF f.quoting_style = "shell_always" /\ f.backslash_escapes
                  THEN "shell_escape_always" ELSE f.quoting_style,
        !.flags = ClearFlag(f.q.flags, QA_ELIDE_OUTER_QUOTES)]

\* catch: the options of the retry; quoteTheseToo: null becomes an empty Set
RetryOptions(f) ==
    [f.q EXCEPT
        !.style = IF f.quoting_style = "shell_always" /\ f.backslash_escapes
                  THEN "shell_escape_always" ELSE f.quoting_style,
        !.flags = ClearFlag(f.q.flags, QA_ELIDE_OUTER_QUOTES),
        !.quoteTheseToo = {}]

\* the depth check at the entry of quotearg_buffer_restyled
DepthLimit == 3

RECURSIVE RunLoop(_)
RunLoop(f) ==
    IF f.sig # "none" \/ f.i >= Len(f.arg) THEN f ELSE RunLoop(ScanChar(f))

\* quotearg_buffer_restyled as a function of its arguments and of the
\* locale cache: [thrown, value], value being the string returned or the
\* error thrown
RECURSIVE quotearg_buffer_restyled(_, _, _, _, _, _)
quotearg_buffer_restyled(arg, q, maxResultLength, depth, cache, probe) ==
    IF depth >= DepthLimit THEN [thrown |-> TRUE, value |-> "RecursionLimit"]
    ELSE
        LET p  == preSwitch(NewFrame(arg, q, maxResultLength, depth),
                            cache, probe)
            f1 == RunLoop(p.frame)
            f2 == IF f1.sig # "none" THEN f1 ELSE AfterLoop(f1)
        IN  IF f2.sig = "force_outer_quoting_style" THEN
                quotearg_buffer_restyled(arg, RetryOptions(f2),
                    maxResultLength, depth + 1, p.cache, probe)
            ELSE IF f2.sig # "none" THEN [thrown |-> TRUE, value |-> f2.sig]
            ELSE IF f2.flow = "minimize" THEN
                quotearg_buffer_restyled(arg, MinimizeOptions(f2),
                    maxResultLength, depth + 1, p.cache, probe)
            ELSE [thrown |-> FALSE, value |-> Join(f2.buffer)]

\* the accumulator of the invocation that returns: quotearg_buffer_restyled
\* before its buffer.join('')
RECURSIVE StoredUnits(_, _, _, _, _, _)
StoredUnits(arg, q, maxResultLength, depth, cache, probe) ==
    IF depth >= DepthLimit THEN [thrown |-> TRUE, value |-> "RecursionLimit"]
    ELSE
        LET p  == preSwitch(NewFrame(arg, q, maxResultLength, depth),
                            cache, probe)
            f1 == RunLoop(p.frame)
            f2 == IF f1.sig # "none" THEN f1 ELSE AfterLoop(f1)
        IN  IF f2.sig = "force_outer_quoting_style" THEN
                StoredUnits(arg, RetryOptions(f2), maxResultLength,
                            depth + 1, p.cache, probe)
            ELSE IF f2.sig # "none" THEN [thrown |-> TRUE, value |-> f2.sig]
            ELSE IF f2.flow = "minimize" THEN
                StoredUnits(arg, MinimizeOptions(f2), maxResultLength,
                            depth + 1, p.cache, probe)
            ELSE [thrown |-> FALSE, value |-> f2.buffer]

\* ------------------------------------------------------ the q objects
\* The heap holds the objects of type q and the Sets they refer to, each at
\* its reference (an index).  A q object has the fields of DefaultOptions,
\* its quoteTheseToo being the reference of a Set; a Set has its members.
\* The module makes defaultQuotingOptions first and quoteQuotingOptions next,
\* each after its Set: they stand at the references 2 and 4.
defaultQuotingOptions == 2

quoteQuotingOptions == 4

\* the options at ref as the engine reads them: the Set by its members
Deref(h, ref) == [h[ref] EXCEPT !.quoteTheseToo = h[@].members]

\* new q(init), init giving every field: initialize makes a new Set with the
\* members of init.quoteTheseToo, and the object refers to it
NewQ(h, init) ==
    LET h1 == Append(h, [members |-> init.quoteTheseToo])
    IN  [heap |-> Append(h1, [init EXCEPT !.quoteTheseToo = Len(h1)]),
         ref  |-> Len(h1) + 1]

\* a clone that would refer to the Set of the object it was made from
cloneSharingSet(h, ref) == [heap |-> Append(h, h[ref]), ref |-> Len(h) + 1]

\* q.prototype.clone with no overrides: new q(this)
clone(h, ref) == NewQ(h, Deref(h, ref))

\* q.prototype.setCharQuoting(chs): the characters up to U+00FF are added to
\* the Set the object refers to
setCharQuoting(h, ref, chs) ==
    [h EXCEPT ![h[ref].quoteTheseToo].members =
                  @ \cup {ch \in chs : ch[1] <= 255}]

\* const defaultQuotingOptions = new q(), with the style the host assigns to
\* it, and const quoteQuotingOptions = new q('locale')
ModuleObjectsWith(style) ==
    NewQ(NewQ(<< >>, [DefaultOptions EXCEPT !.style = style]).heap,
         [DefaultOptions EXCEPT !.style = "locale"]).heap

ModuleObjects == ModuleObjectsWith("literal")

\* ------------------------------------------------------------ the machine
VARIABLES
    call,                \* the arguments of the top-level call
    frame,               \* the frame of the running invocation
    pc,                  \* where the call stands
    result,              \* the string returned, once pc = "done"
    err,                 \* the error thrown, once pc = "thrown"
    localeCharmapCache,  \* the module's cache of the probed charmap
    probes,              \* how often `locale charmap` was run
    probe,               \* what `locale charmap` answers in this process
    wc,                  \* the result of a direct utf8ToWideChar call
    heap                 \* the q objects and their Sets, by reference

vars ==
    << call, frame, pc, result, err, localeCharmapCache, probes, probe, wc,
       heap >>

\* entry of quotearg_buffer_restyled: the depth check and preSwitch
Enter ==
    /\ pc = "enter"
    /\ LET p == preSwitch(frame, localeCharmapCache, probe)
       IN  IF frame.depth >= DepthLimit
           THEN /\ pc' = "thrown"
                /\ err' = "RecursionLimit"
                /\ UNCHANGED << frame, localeCharmapCache, probes >>
           ELSE /\ frame' = p.frame
                /\ localeCharmapCache' = p.cache
                /\ probes' = probes + p.probes
                /\ pc' = IF p.frame.sig # "none" THEN "catch" ELSE "scan"
                /\ err' = err
    /\ UNCHANGED << call, result, probe, wc, heap >>

\* one iteration of the for loop
Scan ==
    /\ pc = "scan"
    /\ frame.i < Len(frame.arg)
    /\ frame' = ScanChar(frame)
    /\ pc' = IF frame'.sig # "none" THEN "catch" ELSE "scan"
    /\ UNCHANGED << call, result, err, localeCharmapCache,
                    probes, probe, wc, heap >>

\* the end of the loop: return, minimize or throw the retry signal
PostScan ==
    /\ pc = "scan"
    /\ frame.i >= Len(frame.arg)
    /\ LET f == AfterLoop(frame)
       IN  IF f.sig # "none"
           THEN /\ frame' = f
                /\ pc' = "catch"
                /\ result' = result
           ELSE IF f.flow = "minimize"
           THEN /\ frame' = NewFrame(f.arg, MinimizeOptions(f),
                                     f.maxResultLength, f.depth + 1)
                /\ pc' = "enter"
                /\ result' = result
           ELSE /\ frame' = f
                /\ pc' = "done"
                /\ result' = Join(f.buffer)
    /\ UNCHANGED << call, err, localeCharmapCache, probes, probe, wc, heap >>

\* the catch block: the retry call, or the error thrown on
Catch ==
    /\ pc = "catch"
    /\ IF frame.sig = "force_outer_quoting_style"
       THEN /\ frame' = NewFrame(frame.arg, RetryOptions(frame),
                                 frame.maxResultLength, frame.depth + 1)
            /\ pc' = "enter"
            /\ err' = err
       ELSE /\ pc' = "thrown"
            /\ err' = frame.sig
            /\ frame' = frame
    /\ UNCHANGED << call, result, localeCharmapCache, probes, probe, wc, heap >>

\* a direct call of utf8ToWideChar(buffer, startIndex)
Decode ==
    /\ pc = "decode"
    /\ wc' = utf8ToWideChar(call.arg, call.startIndex)
    /\ pc' = "decoded"
    /\ UNCHANGED << call, frame, result, err, localeCharmapCache, probes, probe,
                    heap >>

\* a top-level call of the engine with the given arguments
InitEngine(Args, Options, Caps, Probes) ==
    /\ call \in [arg : Args, q : Options, maxResultLength : Caps]
    /\ frame = NewFrame(call.arg, call.q, call.maxResultLength, 0)
    /\ pc = "enter"
    /\ result = << >>
    /\ err = "none"
    /\ localeCharmapCache = "undefined"
    /\ probes = 0
    /\ probe \in Probes
    /\ wc = Null
    /\ heap = ModuleObjects

NextEngine == Enter \/ Scan \/ PostScan \/ Catch

\* ------------------------------------------------------ specifications
\* the options built from each choice of style, flags, quoteTheseToo,
\* quote marks << left, right >> and replacement
OptionsOf(styles, flagSet, tooSets, marks, replacements) ==
    {[style |-> s, flags |-> fl, quoteTheseToo |-> t,
      leftQuote |-> m[1], rightQuote |-> m[2], replacement |-> r] :
        s \in styles, fl \in flagSet, t \in tooSets, m \in marks,
        r \in replacements}

NoMarks == {<< << >>, << >> >>}

\* ( and ) as custom marks
ParenMarks == {<< << 40 >>, << 41 >> >>}

\* Spec: a top-level call with any enumerated style and any flags.
\* Bytes: NUL ' a, the lone continuation byte 80, and C2 AB (U+00AB).
SpecBytes == {0, 39, 97, 128, 194, 171}

SpecOptions ==
    OptionsOf(quotingStyles, 0..7, {{}, {<< 58 >>}}, NoMarks, {null})
    \cup OptionsOf({"custom"}, 0..7, {{}, {<< 58 >>}}, ParenMarks, {null})

Init == InitEngine(SeqsUpTo(SpecBytes, MaxArgLen), SpecOptions, {-1}, {"utf-8"})

Spec == Init /\ [][NextEngine]_vars

\* ----------------------------------------------------------------- C1
\* C1: a top-level call with an enumerated style returns a complete string
\* and raises no error, whatever the input bytes are.
C1_NeverThrows ==
    call.q.style \in EnumeratedStyles => pc # "thrown"

\* ------------------------------------------- what a reader of the output does
\* The properties below read the returned string the way its consumers do:
\* the string is written out in UTF-8, and a shell or a C compiler takes the
\* quoting off again.  Fail marks an output that is no well-formed word.
Fail == << -3 >>

Cat(x, y) == IF x = Fail \/ y = Fail THEN Fail ELSE x \o y

\* the UTF-8 bytes of a code point
Utf8Encode(cp) ==
    IF cp < 128 THEN << cp >>
    ELSE IF cp < 2048 THEN << 192 + (cp \div 64), 128 + (cp % 64) >>
    ELSE IF cp < 65536
    THEN << 224 + (cp \div 4096), 128 + ((cp \div 64) % 64), 128 + (cp % 64) >>
    ELSE << 240 + (cp \div 262144), 128 + ((cp \div 4096) % 64),
            128 + ((cp \div 64) % 64), 128 + (cp % 64) >>

IsOctalDigit(ch) == InRange(48, ch, 55)

\* the number of octal digits (at most three) of str from position p
OctalRun(str, p) ==
    IF p > Len(str) \/ ~IsOctalDigit(str[p]) THEN 0
    ELSE IF p + 1 > Len(str) \/ ~IsOctalDigit(str[p + 1]) THEN 1
    ELSE IF p + 2 > Len(str) \/ ~IsOctalDigit(str[p + 2]) THEN 2
    ELSE 3

\* the byte an octal escape of n digits at position p stands for
OctalValue(str, p, n) ==
    (CASE n = 1 -> str[p] - 48
       [] n = 2 -> (str[p] - 48) * 8 + (str[p + 1] - 48)
       [] OTHER -> (str[p] - 48) * 64 + (str[p + 1] - 48) * 8
                   + (str[p + 2] - 48)) % 256

\* the character a one-letter escape stands for: a b f n r t v \ ' " ?
LetterEscapes == {97, 98, 102, 110, 114, 116, 118, 92, 39, 34, 63}

LetterValue(ch) ==
    CASE ch = 97 -> 7  [] ch = 98 -> 8   [] ch = 102 -> 12 [] ch = 110 -> 10
      [] ch = 114 -> 13 [] ch = 116 -> 9 [] ch = 118 -> 11 [] OTHER -> ch

\* characters that end or alter a word when they stand unquoted
ShellMeta ==
    {9, 10, 32, 33, 34, 35, 36, 38, 39, 40, 41, 42, 59, 60, 61, 62, 63, 91,
     92, 94, 96, 123, 124, 125, 126}

\* POSIX quote removal of one word, with the $'...' form: p is the position
\* read next and mode the kind of run p stands in
RECURSIVE ShellRemove(_, _, _)
ShellRemove(str, p, mode) ==
    IF p > Len(str) THEN (IF mode = "top" THEN << >> ELSE Fail)
    ELSE LET ch == str[p] IN
    CASE mode = "top" ->
            IF ch = 39 THEN ShellRemove(str, p + 1, "single")
            ELSE IF ch = 36 /\ p < Len(str) /\ str[p + 1] = 39
            THEN ShellRemove(str, p + 2, "dollar")
            ELSE IF ch = 34 THEN ShellRemove(str, p + 1, "double")
            ELSE IF ch = 92 THEN
                (IF p < Len(str)
                 THEN Cat(Utf8Encode(str[p + 1]), ShellRemove(str, p + 2, "top"))
                 ELSE Fail)
            ELSE IF ch \in ShellMeta THEN Fail
            ELSE Cat(Utf8Encode(ch), ShellRemove(str, p + 1, "top"))
      [] mode = "single" ->
            IF ch = 39 THEN ShellRemove(str, p + 1, "top")
            ELSE Cat(Utf8Encode(ch), ShellRemove(str, p + 1, "single"))
      [] mode = "dollar" ->
            IF ch = 39 THEN ShellRemove(str, p + 1, "top")
            ELSE IF ch = 92 THEN
                LET n == OctalRun(str, p + 1) IN
                IF n > 0
                THEN Cat(<< OctalValue(str, p + 1, n) >>,
                         ShellRemove(str, p + 1 + n, "dollar"))
                ELSE IF p < Len(str) /\ str[p + 1] \in LetterEscapes
                THEN Cat(<< LetterValue(str[p + 1]) >>,
                         ShellRemove(str, p + 2, "dollar"))
                ELSE Fail
            ELSE Cat(Utf8Encode(ch), ShellRemove(str, p + 1, "dollar"))
      [] OTHER ->
            IF ch = 34 THEN ShellRemove(str, p + 1, "top")
            ELSE IF ch \in {36, 96} THEN Fail
            ELSE IF ch = 92 /\ p < Len(str) /\ str[p + 1] \in {36, 96, 34, 92}
            THEN Cat(<< str[p + 1] >>, ShellRemove(str, p + 2, "double"))
            ELSE Cat(Utf8Encode(ch), ShellRemove(str, p + 1, "double"))

ShellUnquote(str) == ShellRemove(str, 1, "top")

\* ----------------------------------------------------------------- C2
\* SpecShellAlways: calls with the never-eliding shell styles.
\* Bytes: NUL ' \ ESC a and the lone continuation byte 80.
ShellAlwaysBytes == {0, 39, 92, 27, 97, 128}

InitShellAlways ==
    InitEngine(SeqsUpTo(ShellAlwaysBytes, MaxArgLen),
               OptionsOf({"shell_always", "shell_escape_always"}, 0..7,
                         {{}}, NoMarks, {null}),
               {-1}, {"utf-8"})

SpecShellAlways == InitShellAlways /\ [][NextEngine]_vars

\* C2: with style shell_always or shell_escape_always, no cap and no
\* replacement, the call returns a string from which shell quote removal
\* gives back exactly the input bytes, as one word.
C2_ShellRoundTrip ==
    (/\ call.q.style \in {"shell_always", "shell_escape_always"}
     /\ call.maxResultLength = -1
     /\ call.q.replacement = null
     /\ pc \in {"done", "thrown"})
    => (pc = "done" /\ ShellUnquote(result) = call.arg)

\* ----------------------------------------------------------------- C3
\* the body of a C string literal, read from position p up to the closing
\* double quote, which has to be the last character
RECURSIVE CBody(_, _)
CBody(str, p) ==
    IF p > Len(str) THEN Fail
    ELSE LET ch == str[p] IN
    IF ch = 34 THEN (IF p = Len(str) THEN << >> ELSE Fail)
    ELSE IF ch = 92 THEN
        LET n == OctalRun(str, p + 1) IN
        IF n > 0
        THEN Cat(<< OctalValue(str, p + 1, n) >>, CBody(str, p + 1 + n))
        ELSE IF p < Len(str) /\ str[p + 1] \in LetterEscapes
        THEN Cat(<< LetterValue(str[p + 1]) >>, CBody(str, p + 2))
        ELSE Fail
    ELSE Cat(Utf8Encode(ch), CBody(str, p + 1))

\* a standard C string unescaper applied to a double-quoted string
CUnescape(str) ==
    IF Len(str) >= 2 /\ str[1] = 34 THEN CBody(str, 2) ELSE Fail

\* SpecC: calls with style c, no elision, no trigraph splitting.
\* Bytes: NUL 1 " \ LF ESC a, the lone byte 80, and C2 AB (U+00AB).
CBytes == {0, 49, 34, 92, 10, 27, 97, 128, 194, 171}

InitC ==
    InitEngine(SeqsUpTo(CBytes, MaxArgLen),
               OptionsOf({"c"}, {0, QA_ELIDE_NULL_BYTES}, {{}}, NoMarks,
                         {null, << 63 >>}),
               {-1}, {"utf-8"})

SpecC == InitC /\ [][NextEngine]_vars

\* C3: with style c, elision off, no SPLIT_TRIGRAPHS, empty quoteTheseToo and
\* no cap, the call returns a double-quoted string that a standard C string
\* unescaper turns back into exactly the input bytes.
C3_CRoundTrip ==
    (/\ call.q.style = "c"
     /\ ~HasFlag(call.q.flags, QA_ELIDE_OUTER_QUOTES)
     /\ ~HasFlag(call.q.flags, QA_SPLIT_TRIGRAPHS)
     /\ call.q.quoteTheseToo = {}
     /\ call.maxResultLength = -1
     /\ pc \in {"done", "thrown"})
    => (pc = "done" /\ CUnescape(result) = call.arg)

\* ----------------------------------------------------------------- C4
\* Well-formed UTF-8 as the Unicode standard tables it: the length of the
\* well-formed sequence that starts at index i of buf, 0 when none does.
IsCont(buf, i) == i < Len(buf) /\ InRange(128, At(buf, i), 191)

WellFormedLen(buf, i) ==
    IF i >= Len(buf) THEN 0
    ELSE LET b0 == At(buf, i)
             b1 == IF i + 1 < Len(buf) THEN At(buf, i + 1) ELSE -1
         IN
    CASE b0 <= 127 -> 1
      [] InRange(194, b0, 223) -> IF IsCont(buf, i + 1) THEN 2 ELSE 0
      [] InRange(224, b0, 239) ->
            IF /\ IsCont(buf, i + 1) /\ IsCont(buf, i + 2)
               /\ (b0 = 224 => b1 >= 160)
               /\ (b0 = 237 => b1 <= 159)
            THEN 3 ELSE 0
      [] InRange(240, b0, 244) ->
            IF /\ IsCont(buf, i + 1) /\ IsCont(buf, i + 2) /\ IsCont(buf, i + 3)
               /\ (b0 = 240 => b1 >= 144)
               /\ (b0 = 244 => b1 <= 143)
            THEN 4 ELSE 0
      [] OTHER -> 0

\* the code point of the well-formed sequence of n bytes at index i
ScalarValue(buf, i, n) ==
    CASE n = 1 -> At(buf, i)
      [] n = 2 -> (At(buf, i) - 192) * 64 + (At(buf, i + 1) - 128)
      [] n = 3 -> (At(buf, i) - 224) * 4096 + (At(buf, i + 1) - 128) * 64
                  + (At(buf, i + 2) - 128)
      [] OTHER -> (At(buf, i) - 240) * 262144 + (At(buf, i + 1) - 128) * 4096
                  + (At(buf, i + 2) - 128) * 64 + (At(buf, i + 3) - 128)

\* the input as a raw string: the decoded character of every decodable
\* sequence and one character per byte of an undecodable span
RECURSIVE RawString(_, _)
RawString(buf, i) ==
    IF i >= Len(buf) THEN << >>
    ELSE LET n == WellFormedLen(buf, i) IN
         IF n > 0 THEN << ScalarValue(buf, i, n) >> \o RawString(buf, i + n)
         ELSE << At(buf, i) >> \o RawString(buf, i + 1)

\* SpecLiteral: calls with style literal on NUL-free input.
\* Bytes: ' \ a :, the lone byte 80, C2 85 (U+0085) and C2 AB (U+00AB).
LiteralBytes == {39, 92, 97, 58, 128, 194, 133, 171}

InitLiteral ==
    InitEngine(SeqsUpTo(LiteralBytes, MaxArgLen),
               OptionsOf({"literal"}, 0..7, {{}, {<< 58 >>}}, NoMarks, {null}),
               {-1}, {"utf-8"})

SpecLiteral == InitLiteral /\ [][NextEngine]_vars

\* C4: on input without a NUL byte, style literal (any flags, no replacement,
\* no cap) returns the input unchanged: the decoded character of each
\* decodable sequence, one character per byte of an undecodable span.
C4_LiteralIdentity ==
    (/\ call.q.style = "literal"
     /\ call.q.replacement = null
     /\ call.maxResultLength = -1
     /\ \A k \in 1..Len(call.arg) : call.arg[k] # 0
     /\ pc \in {"done", "thrown"})
    => (pc = "done" /\ result = RawString(call.arg, 0))

\* ----------------------------------------------------------------- C5
\* SpecMinimize: calls with style shell_always, capped and uncapped.
\* Bytes: ' a space : \ and C2 AB (U+00AB).
MinimizeBytes == {39, 97, 32, 58, 92, 194, 171}

InitMinimize ==
    InitEngine(SeqsUpTo(MinimizeBytes, MaxArgLen),
               OptionsOf({"shell_always"}, 0..7, {{}, {<< 58 >>}}, NoMarks,
                         {null}),
               {-1, 0, 2}, {"utf-8"})

SpecMinimize == InitMinimize /\ [][NextEngine]_vars

\* the first attempt of the call, run up to the end of its scan
FirstScan ==
    RunLoop(preSwitch(NewFrame(call.arg, call.q, call.maxResultLength, 0),
                      "undefined", probe).frame)

\* the call is one of style shell_always with elision off whose scan met an
\* apostrophe and flagged every character it processed as compatible
ApostropheAllCompat ==
    /\ call.q.style = "shell_always"
    /\ ~HasFlag(call.q.flags, QA_ELIDE_OUTER_QUOTES)
    /\ FirstScan.sig = "none"
    /\ FirstScan.encountered_single_quote
    /\ FirstScan.all_c_and_shell_quote_compat

Contains(str, sub) ==
    \E k \in 0..(Len(str) - Len(sub)) : SubSeq(str, k + 1, k + Len(sub)) = sub

\* what style c returns for the same input, flags, quoteTheseToo and cap
SameCallStyleC ==
    quotearg_buffer_restyled(call.arg, [call.q EXCEPT !.style = "c"],
                             call.maxResultLength, 0, "undefined", probe)

\* C5: when the input has an apostrophe and every processed character is
\* flagged C/shell-compatible, style shell_always with elision off returns
\* exactly what style c returns for the same flags, quoteTheseToo and cap,
\* and the result holds no '\'' sequence.
C5_MinimizedEqualsC ==
    ApostropheAllCompat =>
        /\ pc # "thrown"
        /\ pc = "done" =>
            /\ ~SameCallStyleC.thrown
            /\ result = SameCallStyleC.value
            /\ ~Contains(result, << 39, 92, 39, 39 >>)

\* a minimized call has returned the double-quoted form of a'a or the like
C5_Witness ==
    /\ ApostropheAllCompat
    /\ pc = "done"
    /\ frame.depth = 1
    /\ call.maxResultLength = -1
    /\ Len(call.arg) >= 2
    /\ result = << 34 >> \o call.arg \o << 34 >>

\* ----------------------------------------------------------------- C6
\* SpecEmpty: calls with the four shell styles on input of NUL and a.
EmptyBytes == {0, 97}

InitEmpty ==
    InitEngine(SeqsUpTo(EmptyBytes, MaxArgLen),
               OptionsOf({"shell", "shell_always", "shell_escape",
                          "shell_escape_always"}, 0..7, {{}}, NoMarks, {null}),
               {-1, 0}, {"utf-8"})

SpecEmpty == InitEmpty /\ [][NextEngine]_vars

\* the first attempt resolved to shell_always with elision active and came
\* to the end of its scan with nothing stored, no cap being set
ScanStoredNothing ==
    /\ call.maxResultLength = -1
    /\ FirstScan.sig = "none"
    /\ FirstScan.quoting_style = "shell_always"
    /\ FirstScan.elide_outer_quotes
    /\ Len(FirstScan.buffer) = 0

\* C6: with no cap, when an attempt resolved to shell_always with elision
\* active ends its scan with nothing stored, the call retries and returns
\* the two apostrophes ''; it never returns the empty string.
C6_EmptyGivesTwoQuotes ==
    ScanStoredNothing =>
        /\ pc # "thrown"
        /\ pc = "done" => (frame.depth = 1 /\ result = << 39, 39 >>)

\* a call on NUL bytes alone, elided, has returned ''
C6_Witness ==
    /\ ScanStoredNothing
    /\ pc = "done"
    /\ Len(call.arg) >= 1
    /\ result = << 39, 39 >>

\* ----------------------------------------------------------------- C7
\* SpecNul: calls with every style on input of NUL, the digit 1 and a.
NulBytes == {0, 49, 97}

InitNul ==
    InitEngine(SeqsUpTo(NulBytes, MaxArgLen), SpecOptions, {-1, 2}, {"utf-8"})

SpecNul == InitNul /\ [][NextEngine]_vars

\* the loop stands at a NUL byte
AtNul ==
    /\ pc = "scan"
    /\ frame.i < Len(frame.arg)
    /\ At(frame.arg, frame.i) = 0

\* what store keeps of the units offered, in their order
Truncate(units, cap) ==
    IF cap < 0 \/ Len(units) <= cap THEN units ELSE SubSeq(units, 1, cap)

\* the units a NUL byte is emitted as in frame f
NulEmission(f) ==
    IF f.backslash_escapes THEN
        (IF f.quoting_style = "shell_always" /\ ~f.pending_shell_escape_end
         THEN << << 39, 36, 39 >> >> ELSE << >>)
        \o << << 92 >> >>
        \o (IF /\ f.quoting_style # "shell_always"
               /\ f.i + 1 < Len(f.arg)
               /\ At(f.arg, f.i + 1) \in 48..57
            THEN << << 48, 48 >> >> ELSE << >>)
        \o << << 48 >> >>
    ELSE IF HasFlag(f.q.flags, QA_ELIDE_NULL_BYTES) THEN << >>
    ELSE << << 0 >> >>

\* the same call with ELIDE_NULL_BYTES the other way round
OtherNullFlagCall ==
    quotearg_buffer_restyled(call.arg,
        [call.q EXCEPT !.flags =
            IF HasFlag(@, QA_ELIDE_NULL_BYTES)
            THEN ClearFlag(@, QA_ELIDE_NULL_BYTES)
            ELSE SetFlag(@, QA_ELIDE_NULL_BYTES)],
        call.maxResultLength, 0, "undefined", probe)

\* the style of the call resolves to one that escapes with backslashes
BackslashStyle ==
    preSwitch(NewFrame(call.arg, call.q, call.maxResultLength, 0),
              "undefined", probe).frame.backslash_escapes

NulStep ==
    /\ AtNul =>
        IF frame.backslash_escapes /\ frame.elide_outer_quotes
        THEN frame'.sig = "force_outer_quoting_style" /\ pc' = "catch"
        ELSE /\ frame'.sig = "none"
             /\ frame'.i = frame.i + 1
             /\ frame'.buffer =
                    Truncate(frame.buffer \o NulEmission(frame),
                             frame.maxResultLength)
    /\ (pc' = "done" /\ BackslashStyle) => result' = OtherNullFlagCall.value

\* C7: a NUL byte is emitted, when backslash-escaping is on, as a backslash
\* and 0, with 00 put after the backslash exactly when the resolved style is
\* not shell_always and the next input byte is a decimal digit; when
\* backslash-escaping is off it emits nothing under ELIDE_NULL_BYTES and is
\* copied raw otherwise.  Under a backslash-escaping style ELIDE_NULL_BYTES
\* does not change the result.
C7_NulHandling == [][NulStep]_vars

\* style c has returned "\0001\0" for the bytes 00 31 00
C7_Witness ==
    /\ pc = "done"
    /\ call.q.style = "c"
    /\ ~HasFlag(call.q.flags, QA_ELIDE_OUTER_QUOTES)
    /\ call.maxResultLength = -1
    /\ call.arg = << 0, 49, 0 >>
    /\ result = << 34, 92, 48, 48, 48, 49, 92, 48, 34 >>

\* ----------------------------------------------------------------- C8
\* SpecTrigraph: calls on input of ? = ' ) and a, with and without
\* SPLIT_TRIGRAPHS and ELIDE_OUTER_QUOTES, '=' in quoteTheseToo or not.
TrigraphBytes == {63, 61, 39, 41, 97}

TrigraphOptions ==
    OptionsOf({"c", "c_maybe", "escape", "shell", "shell_always", "literal"},
              {0, QA_ELIDE_OUTER_QUOTES, QA_SPLIT_TRIGRAPHS,
               QA_ELIDE_OUTER_QUOTES + QA_SPLIT_TRIGRAPHS},
              {{}, {<< 61 >>}}, NoMarks, {null})
    \cup OptionsOf({"custom"}, {0, QA_SPLIT_TRIGRAPHS}, {{}, {<< 61 >>}},
                   ParenMarks, {null})

InitTrigraph ==
    InitEngine(SeqsUpTo(TrigraphBytes, MaxArgLen), TrigraphOptions, {-1, 2},
               {"utf-8"})

SpecTrigraph == InitTrigraph /\ [][NextEngine]_vars

\* two question marks and one of ! ' ( ) - / < = > stand at index i of arg
TrigraphAt(arg, i) ==
    /\ i >= 0
    /\ i + 2 < Len(arg)
    /\ At(arg, i) = 63
    /\ At(arg, i + 1) = 63
    /\ At(arg, i + 2) \in {33, 39, 40, 41, 45, 47, 60, 61, 62}

\* the loop stands at a trigraph that style c is asked to split
AtSplit ==
    /\ pc = "scan"
    /\ frame.i < Len(frame.arg)
    /\ frame.quoting_style = "c"
    /\ HasFlag(frame.q.flags, QA_SPLIT_TRIGRAPHS)
    /\ TrigraphAt(frame.arg, frame.i)

\* the loop stands at a byte of a trigraph that is not to be split
AtUnsplit ==
    /\ pc = "scan"
    /\ frame.i < Len(frame.arg)
    /\ ~(frame.quoting_style = "c" /\ HasFlag(frame.q.flags, QA_SPLIT_TRIGRAPHS))
    /\ \E k \in 0..2 : TrigraphAt(frame.arg, frame.i - k)

\* the step appends exactly the given units, as far as the cap lets it, and
\* moves on by n bytes
Appends(units, n) ==
    /\ frame'.sig = "none"
    /\ frame'.i = frame.i + n
    /\ frame'.buffer =
            Truncate(frame.buffer \o units, frame.maxResultLength)

RetrySignalled == frame'.sig = "force_outer_quoting_style" /\ pc' = "catch"

\* the claim as stated: ?""? and the third character under c with the flag,
\* the three bytes copied as they are everywhere else
TrigraphStepAsStated ==
    /\ AtSplit =>
        IF frame.elide_outer_quotes THEN RetrySignalled
        ELSE Appends(<< << 63, 34, 34, 63 >>,
                        << At(frame.arg, frame.i + 2) >> >>, 3)
    /\ (AtUnsplit /\ ~RetrySignalled) =>
        Appends(<< << At(frame.arg, frame.i) >> >>, 1)

ThirdUnits(f) ==
    LET third == << At(f.arg, f.i + 2) >>
    IN  IF third \in f.q.quoteTheseToo
        THEN << << 92 >>, third >> ELSE << third >>

\* no unit of the accumulator is the splitter ?""?
NoSplitter(buf) == \A k \in 1..Len(buf) : buf[k] # << 63, 34, 34, 63 >>

TrigraphStep ==
    /\ AtSplit =>
        IF frame.elide_outer_quotes THEN RetrySignalled
        ELSE Appends(<< << 63, 34, 34, 63 >> >> \o ThirdUnits(frame), 3)
    /\ (AtUnsplit /\ ~RetrySignalled) =>
        /\ frame'.i = frame.i + 1
        /\ NoSplitter(frame.buffer) => NoSplitter(frame'.buffer)
        /\ At(frame.arg, frame.i) = 63 => Appends(<< << 63 >> >>, 1)

CustomBytes == {97, 58, 64, 41, 128}

InitCustom ==
    InitEngine(SeqsUpTo(CustomBytes, MaxArgLen),
               OptionsOf({"custom"}, 0..7, {{}, {<< 58 >>}, {<< 64 >>}},
                         ParenMarks, {null}),
               {-1}, {"utf-8"})

SpecCustom == InitCustom /\ [][NextEngine]_vars

\* printable characters that no style treats specially: a : @
PlainBytes == {97, 58, 64}

\* the body for input of plain characters: each one copied, behind one
\* backslash when it is in the set too
RECURSIVE PlainBody(_, _)
PlainBody(arg, too) ==
    IF arg = << >> THEN << >>
    ELSE (IF << Head(arg) >> \in too
          THEN << 92, Head(arg) >> ELSE << Head(arg) >>)
         \o PlainBody(Tail(arg), too)

\* C9: under style custom with elision off and no cap the result is
\* leftQuote, the escaped body, rightQuote; in the body a character that is
\* neither special nor in quoteTheseToo is copied unescaped and every
\* character in quoteTheseToo is preceded by one backslash.
C9_CustomForm ==
    (/\ call.q.style = "custom"
     /\ ~HasFlag(call.q.flags, QA_ELIDE_OUTER_QUOTES)
     /\ call.maxResultLength = -1
     /\ \A k \in 1..Len(call.arg) : call.arg[k] \in PlainBytes
     /\ pc \in {"done", "thrown"})
    => /\ pc = "done"
       /\ result = call.q.leftQuote
                   \o PlainBody(call.arg, call.q.quoteTheseToo)
                   \o call.q.rightQuote

\* ---------------------------------------------------------------- C10
\* SpecDecode: direct calls of utf8ToWideChar.
\* Bytes: a, 7F, and the boundary bytes of the UTF-8 length classes.
DecodeBytes == {97, 127, 128, 144, 160, 191, 194, 224, 237, 240, 244}

InitDecode ==
    /\ call \in [arg : SeqsUpTo(DecodeBytes, MaxBufLen),
                 startIndex : 0..MaxBufLen]
    /\ frame = NewFrame(<< >>, DefaultOptions, -1, 0)
    /\ pc = "decode"
    /\ result = << >>
    /\ err = "none"
    /\ localeCharmapCache = "undefined"
    /\ probes = 0
    /\ probe = "utf-8"
    /\ wc = Null
    /\ heap = ModuleObjects

NextDecode == Decode

SpecDecode == InitDecode /\ [][NextDecode]_vars

HasString(r) == "currentString" \in DOMAIN r

\* C10: utf8ToWideChar gives a result with currentString exactly when a
\* well-formed UTF-8 sequence of 1 to 4 bytes begins at startIndex, and then
\* currentBytes is the length of that sequence and currentString its code
\* point.
C10_DecodesWellFormed ==
    pc = "decoded" =>
        LET n == WellFormedLen(call.arg, call.startIndex)
        IN  /\ HasString(wc) <=> n > 0
            /\ n > 0 =>
                /\ wc.currentBytes = n
                /\ wc.currentString
                     = << ScalarValue(call.arg, call.startIndex, n) >>

\* ---------------------------------------------------------------- C11
\* the indices from i to the end of buf at which a well-formed sequence begins
WellFormedFrom(buf, i) ==
    {j \in i..(Len(buf) - 1) : WellFormedLen(buf, j) > 0}

\* the least element of a non-empty set of indices
Least(S) == CHOOSE j \in S : \A k \in S : j <= k

\* C11: when no well-formed sequence begins at startIndex but one begins at
\* a later index, utf8ToWideChar gives a result without currentString whose
\* currentBytes is the distance from startIndex to the first such index, at
\* least 1 and not reaching past the end of the buffer.
C11_SkipsToNextSequence ==
    (/\ pc = "decoded"
     /\ call.startIndex < Len(call.arg)
     /\ WellFormedLen(call.arg, call.startIndex) = 0
     /\ WellFormedFrom(call.arg, call.startIndex) # {})
    => /\ wc # Null
       /\ ~HasString(wc)
       /\ wc.currentBytes
            = Least(WellFormedFrom(call.arg, call.startIndex)) - call.startIndex
       /\ wc.currentBytes >= 1
       /\ call.startIndex + wc.currentBytes <= Len(call.arg)

\* ---------------------------------------------------------------- C12
\* C12: when startIndex is inside the buffer and no well-formed sequence
\* begins anywhere in the remainder, utf8ToWideChar gives a result without
\* currentString whose currentBytes is the number of bytes that remain.
C12_ReportsRemainder ==
    (/\ pc = "decoded"
     /\ call.startIndex < Len(call.arg)
     /\ WellFormedFrom(call.arg, call.startIndex) = {})
    => /\ wc # Null
       /\ ~HasString(wc)
       /\ wc.currentBytes = Len(call.arg) - call.startIndex

\* ---------------------------------------------------------------- C13
\* C13: utf8ToWideChar gives null when startIndex is at or past the end of
\* the buffer, and when no well-formed sequence begins at any index from
\* startIndex to the end.
C13_NullWhenNothingLeft ==
    (/\ pc = "decoded"
     /\ \/ call.startIndex >= Len(call.arg)
        \/ WellFormedFrom(call.arg, call.startIndex) = {})
    => wc = Null

\* the truncated sequence F0 90 80 has been decoded from offset 0
C13_Witness ==
    /\ pc = "decoded"
    /\ call.arg = << 240, 144, 128 >>
    /\ call.startIndex = 0
    /\ wc = Null

\* ---------------------------------------------------------------- C14
\* SpecToo: calls with every style and a non-empty quoteTheseToo, {:} or {@}.
\* Bytes: a : @ and space.
TooBytes == {97, 58, 64, 32}

TooOptions ==
    OptionsOf(quotingStyles, {0, QA_ELIDE_OUTER_QUOTES},
              {{<< 58 >>}, {<< 64 >>}}, NoMarks, {null})
    \cup OptionsOf({"custom"}, {0, QA_ELIDE_OUTER_QUOTES},
                   {{<< 58 >>}, {<< 64 >>}}, ParenMarks, {null})

InitToo ==
    InitEngine(SeqsUpTo(TooBytes, MaxArgLen), TooOptions, {-1}, {"utf-8"})

SpecToo == InitToo /\ [][NextEngine]_vars

\* the string stands between a pair of outer quote marks: '...' "..." (...)
\* or the left and right single quotation marks
OuterQuoted(str) ==
    /\ Len(str) >= 2
    /\ << str[1], str[Len(str)] >>
         \in {<< 39, 39 >>, << 34, 34 >>, << 40, 41 >>, << 8216, 8217 >>}

\* every character of the set too in str has a backslash before it
AllBackslashed(str, too) ==
    \A k \in 1..Len(str) :
        << str[k] >> \in too => (k > 1 /\ str[k - 1] = 92)

\* C14: under every style each input character that is in quoteTheseToo is
\* escaped in the output: it follows a backslash or stands inside outer
\* quotes, and is never copied bare into an output without outer quotes.
C14_TooAlwaysEscaped ==
    pc \in {"done", "thrown"} =>
        /\ pc = "done"
        /\ OuterQuoted(result) \/ AllBackslashed(result, call.q.quoteTheseToo)

\* ---------------------------------------------------------------- C15
\* SpecUnknown: calls whose style is no style name, next to two that are.
UnknownStyles == {"bogus", ""}

UnknownBytes == {0, 39, 97}

InitUnknown ==
    InitEngine(SeqsUpTo(UnknownBytes, MaxArgLen),
               OptionsOf(UnknownStyles \cup {"shell", "c"}, 0..7,
                         {{}, {<< 58 >>}}, NoMarks, {null}),
               {-1, 2}, {"utf-8"})

SpecUnknown == InitUnknown /\ [][NextEngine]_vars

\* C15: a call whose style is none of the enumerated names raises an error
\* before any byte is scanned and returns no string; the style is not
\* replaced by a default and no retry is made.
C15_UnknownStyleRaises ==
    call.q.style \notin EnumeratedStyles =>
        /\ pc \in {"enter", "catch", "thrown"}
        /\ frame.i = 0
        /\ frame.buffer = << >>
        /\ frame.depth = 0
        /\ frame.quoting_style = call.q.style
        /\ result = << >>
        /\ pc = "catch" => frame.sig = "Error"
        /\ pc = "thrown" => err = "Error"

\* a call with the style name bogus on non-empty input has raised the error
C15_Witness ==
    /\ call.q.style = "bogus"
    /\ Len(call.arg) >= 1
    /\ pc = "thrown"
    /\ err = "Error"

\* ---------------------------------------------------------------- C16
\* SpecDepth: the engine entered with any recursion depth 0..DepthLimit + 1,
\* depth 0 being the top-level call.
\* Bytes: ' a and the lone byte 80.
DepthBytes == {39, 97, 128}

DepthOptions ==
    OptionsOf(quotingStyles, {0, QA_ELIDE_OUTER_QUOTES}, {{}, {<< 58 >>}},
              NoMarks, {null})
    \cup OptionsOf({"custom"}, {0, QA_ELIDE_OUTER_QUOTES}, {{}, {<< 58 >>}},
                   ParenMarks, {null})

InitDepth ==
    /\ call \in [arg : SeqsUpTo(DepthBytes, MaxArgLen), q : DepthOptions,
                 maxResultLength : {-1}, depth : 0..(DepthLimit + 1)]
    /\ frame = NewFrame(call.arg, call.q, call.maxResultLength, call.depth)
    /\ pc = "enter"
    /\ result = << >>
    /\ err = "none"
    /\ localeCharmapCache = "undefined"
    /\ probes = 0
    /\ probe = "utf-8"
    /\ wc = Null
    /\ heap = ModuleObjects

SpecDepth == InitDepth /\ [][NextEngine]_vars

\* entered at the limit the engine throws at once; a top-level call stays
\* below the limit
DepthBounded ==
    /\ frame.depth >= DepthLimit =>
        /\ pc \in {"enter", "thrown"}
        /\ frame.i = 0
        /\ frame.buffer = << >>
        /\ pc = "thrown" => err = "RecursionLimit"
    /\ (call.depth = 0 /\ call.q.style \in EnumeratedStyles) =>
        /\ frame.depth <= 2
        /\ err # "RecursionLimit"

\* what is left to do: the invocations that may still be entered, and within
\* the running one the entry, the bytes not yet scanned, the catch block
StepsLeft ==
    IF pc \in {"done", "thrown"} THEN 0
    ELSE (DepthLimit + 1 - frame.depth) * (Len(call.arg) + 4)
         + (CASE pc = "enter" -> Len(call.arg) + 3
              [] pc = "scan"  -> Len(call.arg) - frame.i + 2
              [] OTHER        -> 1)

\* a call that has neither returned nor thrown stands where one of Enter,
\* Scan, PostScan and Catch takes the next step: their guards are these
NeverStuck ==
    pc \notin {"done", "thrown"} =>
        \/ pc = "enter"
        \/ pc = "scan" /\ frame.i < Len(frame.arg)
        \/ pc = "scan" /\ frame.i >= Len(frame.arg)
        \/ pc = "catch"

\* C16: entered with recursion depth 3 or more the engine raises the
\* recursion-limit error at once; a top-level call with an enumerated style
\* never gets there and ends after at most two nested re-invocations: every
\* step brings the call nearer to its end and no unfinished call is stuck.
C16_DepthAtMostTwo ==
    /\ [](DepthBounded /\ NeverStuck /\ StepsLeft >= 0)
    /\ [][StepsLeft' < StepsLeft]_vars

\* a top-level call has returned from its second nested invocation
C16_Witness ==
    /\ call.depth = 0
    /\ pc = "done"
    /\ frame.depth = 2

\* ---------------------------------------------------------------- C17
\* SpecProcess: one process making up to MaxCalls engine calls one after the
\* other.  `locale charmap` answers the same in all of them: a UTF-8 charmap,
\* another charmap, nothing at all, or the command fails.
ProcessProbes == {"utf-8", "ansi_x3.4-1968", "", "throws"}

ProcessBytes == {97, 39}

ProcessOptions ==
    OptionsOf({"locale", "clocale", "literal"}, {0, QA_ELIDE_OUTER_QUOTES},
              {{}}, NoMarks, {null})

ProcessCalls(n) ==
    [arg : SeqsUpTo(ProcessBytes, MaxArgLen), q : ProcessOptions,
     maxResultLength : {-1}, n : {n}]

InitProcess ==
    /\ call \in ProcessCalls(1)
    /\ frame = NewFrame(call.arg, call.q, call.maxResultLength, 0)
    /\ pc = "enter"
    /\ result = << >>
    /\ err = "none"
    /\ localeCharmapCache = "undefined"
    /\ probes = 0
    /\ probe \in ProcessProbes
    /\ wc = Null
    /\ heap = ModuleObjects

\* the next top-level call of the process, once the one before has returned
\* or thrown; the module's cache lives on
NextCall ==
    /\ pc \in {"done", "thrown"}
    /\ call.n < MaxCalls
    /\ call' \in ProcessCalls(call.n + 1)
    /\ frame' = NewFrame(call'.arg, call'.q, call'.maxResultLength, 0)
    /\ pc' = "enter"
    /\ result' = << >>
    /\ err' = "none"
    /\ UNCHANGED << localeCharmapCache, probes, probe, wc, heap >>

NextProcess == Enter \/ Scan \/ PostScan \/ Catch \/ NextCall

SpecProcess == InitProcess /\ [][NextProcess]_vars

\* C17: over all the engine calls of one process the locale charmap probe
\* is run at most once, whatever it answers; every later lookup of a quote
\* mark uses the cached answer.
C17_ProbeAtMostOnce == probes <= 1

\* ---------------------------------------------------------------- C18
\* C18: when the locale charmap probe fails, the call of style locale or
\* clocale that ran it still returns a complete string quoted with ASCII
\* apostrophes; the failure does not reach the caller.
C18_ProbeFailureRecovered ==
    (/\ probe = "throws"
     /\ call.q.style \in {"locale", "clocale"}
     /\ pc \in {"done", "thrown"})
    => /\ pc = "done"
       /\ ~HasFlag(call.q.flags, QA_ELIDE_OUTER_QUOTES) =>
            /\ Len(result) >= 2
            /\ result[1] = 39
            /\ result[Len(result)] = 39

\* ---------------------------------------------------------------- C19
\* the attempt has resolved its marks to the pair << left, right >> and, once
\* it has returned unelided, the result stands between them
MarksAre(pair) ==
    /\ frame.leftQuote = pair[1]
    /\ frame.rightQuote = pair[2]
    /\ (pc = "done" /\ ~frame.elide_outer_quotes) =>
        /\ Len(result) >= 2
        /\ << result[1] >> = pair[1]
        /\ << result[Len(result)] >> = pair[2]

\* an attempt of style locale or clocale is past its preSwitch
MarksResolved ==
    /\ frame.q.style \in {"locale", "clocale"}
    /\ pc \in {"scan", "done"}

\* the claim as stated: apostrophes under both styles when not UTF-8
C19_AsStated ==
    MarksResolved =>
        MarksAre(IF probe = "utf-8" THEN << << 8216 >>, << 8217 >> >>
                 ELSE << << 39 >>, << 39 >> >>)

\* C19: for styles locale and clocale the marks are the left and right
\* single quotation marks U+2018 and U+2019 when the probed charmap is
\* utf-8; when it is not they are ASCII double quotes for style clocale and
\* ASCII apostrophes for style locale.
C19_LocaleMarks ==
    MarksResolved =>
        MarksAre(IF probe = "utf-8" THEN << << 8216 >>, << 8217 >> >>
                 ELSE IF frame.q.style = "clocale"
                 THEN << << 34 >>, << 34 >> >>
                 ELSE << << 39 >>, << 39 >> >>)

\* style clocale under a charmap other than UTF-8 has returned "a"
C19_Witness ==
    /\ pc = "done"
    /\ call.q.style = "clocale"
    /\ call.q.flags = 0
    /\ probe = "ansi_x3.4-1968"
    /\ call.arg = << 97 >>
    /\ result = << 34, 97, 34 >>

\* ---------------------------------------------------------------- C20
\* new q(style) with chs given to setCharQuoting, as quotearg_n_options
\* hands it to the engine: ELIDE_NULL_BYTES added to the flags
quotearg_n_options(style, chs) ==
    [DefaultOptions EXCEPT !.style = style,
                           !.quoteTheseToo = chs,
                           !.flags = SetFlag(@, QA_ELIDE_NULL_BYTES)]

\* quotef: style shell with ':' in quoteTheseToo
quotef == quotearg_n_options("shell", {<< 58 >>})

\* quoteaf: style shell_always
quoteaf == quotearg_n_options("shell_always", {})

\* SpecQuotef: calls of quotef.  Bytes: a : ' space NUL and the lone byte 80.
QuotefBytes == {97, 58, 39, 32, 0, 128}

InitQuotef ==
    InitEngine(SeqsUpTo(QuotefBytes, MaxArgLen), {quotef}, {-1}, {"utf-8"})

SpecQuotef == InitQuotef /\ [][NextEngine]_vars

Has(arg, b) == \E k \in 1..Len(arg) : arg[k] = b

\* what the never-eliding style shell_always returns for the same input
ShellAlwaysForm ==
    quotearg_buffer_restyled(call.arg, quoteaf, -1, 0, "undefined", probe)

\* C20: quotef returns a non-empty input with no colon and no character
\* that makes elision unsafe unchanged, and returns every input with a colon
\* in the never-elided shell_always form, never bare.
C20_QuotefColon ==
    pc \in {"done", "thrown"} =>
        /\ pc = "done"
        /\ Has(call.arg, 58) =>
            /\ ~ShellAlwaysForm.thrown
            /\ result = ShellAlwaysForm.value
            /\ OuterQuoted(result)
        /\ (/\ call.arg # << >>
            /\ \A k \in 1..Len(call.arg) : call.arg[k] \in NormalChars
                                            /\ call.arg[k] # 58) =>
            result = call.arg

\* ---------------------------------------------------------------- C21
\* quotearg_custom: a clone of defaultQuotingOptions d with the two marks
\* assigned, as quotearg_n_options hands it to the engine.  The style is the
\* one d has.
quotearg_custom(d, leftQuote, rightQuote) ==
    [d EXCEPT !.leftQuote = leftQuote,
              !.rightQuote = rightQuote,
              !.flags = SetFlag(@, QA_ELIDE_NULL_BYTES)]

\* the values defaultQuotingOptions has when the host has set its style
CustomFacadeDefaults ==
    OptionsOf(EnumeratedStyles, {0}, {{}}, NoMarks, {null})

\* ( ) and [ ] as the marks handed to quotearg_custom
CustomFacadeMarks == {<< << 40 >>, << 41 >> >>, << << 91 >>, << 93 >> >>}

\* SpecCustomFacade: calls of quotearg_custom.  Bytes: a ' ) and space.
CustomFacadeBytes == {97, 39, 41, 32}

InitCustomFacade ==
    InitEngine(SeqsUpTo(CustomFacadeBytes, MaxArgLen),
               {quotearg_custom(d, m[1], m[2]) :
                    d \in CustomFacadeDefaults, m \in CustomFacadeMarks},
               {-1}, {"utf-8"})

SpecCustomFacade == InitCustomFacade /\ [][NextEngine]_vars

\* what the engine returns for style custom with the marks of the call and
\* ELIDE_NULL_BYTES
CustomStyleForm ==
    quotearg_buffer_restyled(
        call.arg,
        [DefaultOptions EXCEPT !.style = "custom",
                               !.flags = QA_ELIDE_NULL_BYTES,
                               !.leftQuote = call.q.leftQuote,
                               !.rightQuote = call.q.rightQuote],
        -1, 0, "undefined", probe)

\* C21: whatever style defaultQuotingOptions has, quotearg_custom returns
\* what the engine returns for style custom with the two marks and
\* ELIDE_NULL_BYTES: a string that begins with leftQuote and ends with
\* rightQuote.
C21_CustomFacade ==
    pc \in {"done", "thrown"} =>
        /\ pc = "done"
        /\ ~CustomStyleForm.thrown
        /\ result = CustomStyleForm.value
        /\ Len(result) >= 2
        /\ << result[1] >> = call.q.leftQuote
        /\ << result[Len(result)] >> = call.q.rightQuote

\* ---------------------------------------------------------------- C22
\* SpecAlias: calls with the eliding aliases c_maybe and shell, with any
\* flags, with and without quoteTheseToo and a cap.
\* Bytes: a ' " : and the lone byte 80.
AliasBytes == {97, 39, 34, 58, 128}

InitAlias ==
    InitEngine(SeqsUpTo(AliasBytes, MaxArgLen),
               OptionsOf({"c_maybe", "shell"}, 0..7, {{}, {<< 58 >>}},
                         NoMarks, {null}),
               {-1, 1}, {"utf-8"})

SpecAlias == InitAlias /\ [][NextEngine]_vars

\* the style an eliding alias stands for
BaseStyle(style) == IF style = "c_maybe" THEN "c" ELSE "shell_always"

\* how the same call ends with the base style and ELIDE_OUTER_QUOTES added
BaseStyleForm ==
    quotearg_buffer_restyled(
        call.arg,
        [call.q EXCEPT !.style = BaseStyle(call.q.style),
                       !.flags = SetFlag(@, QA_ELIDE_OUTER_QUOTES)],
        call.maxResultLength, 0, "undefined", probe)

\* C22: for every input, flags, quoteTheseToo and cap a call with style
\* c_maybe ends as the call with style c and ELIDE_OUTER_QUOTES added does,
\* and a call with style shell as the call with style shell_always and
\* ELIDE_OUTER_QUOTES added does: the same string is returned (or the same
\* error thrown), retries included.
C22_AliasEqualsBase ==
    (call.q.style \in {"c_maybe", "shell"} /\ pc \in {"done", "thrown"}) =>
        /\ pc = "done" <=> ~BaseStyleForm.thrown
        /\ pc = "done" => result = BaseStyleForm.value
        /\ pc = "thrown" => err = BaseStyleForm.value

\* a call with style shell has returned 'a"a' from its retry
C22_Witness ==
    /\ call.q.style = "shell"
    /\ call.q.flags = 0
    /\ call.arg = << 97, 34, 97 >>
    /\ pc = "done"
    /\ frame.depth = 1
    /\ result = << 39, 97, 34, 97, 39 >>

\* ---------------------------------------------------------------- C23
\* q.clone({flags: flags}): the clone with its flags overridden
CloneWithFlags(h, ref, flags) ==
    LET c == clone(h, ref)
    IN  [heap |-> [c.heap EXCEPT ![c.ref].flags = flags], ref |-> c.ref]

\* the facade operations built on quotearg_n_options
FacadeOps ==
    {"quotearg", "quotearg_char", "quotearg_colon", "quotearg_custom",
     "quotearg_style", "quote", "quotef", "quoteaf"}

\* the object the facade operation op hands to quotearg_n_options: ch is the
\* character of quotearg_char, style the style of quotearg_style, marks the
\* pair of marks of quotearg_custom
FacadeObject(h, op, ch, style, marks) ==
    LET c  == clone(h, defaultQuotingOptions)
        qf == NewQ(h, [DefaultOptions EXCEPT !.style = "shell"])
    IN  CASE op = "quotearg" -> [heap |-> h, ref |-> defaultQuotingOptions]
          [] op = "quotearg_char" ->
                [heap |-> setCharQuoting(c.heap, c.ref, {ch}), ref |-> c.ref]
          [] op = "quotearg_colon" ->
                [heap |-> setCharQuoting(c.heap, c.ref, {<< 58 >>}),
                 ref  |-> c.ref]
          [] op = "quotearg_custom" ->
                [heap |-> [c.heap EXCEPT ![c.ref].leftQuote = marks[1],
                                         ![c.ref].rightQuote = marks[2]],
                 ref  |-> c.ref]
          [] op = "quotearg_style" ->
                NewQ(h, [DefaultOptions EXCEPT !.style = style])
          [] op = "quote" -> [heap |-> h, ref |-> quoteQuotingOptions]
          [] op = "quotef" ->
                [heap |-> setCharQuoting(qf.heap, qf.ref, {<< 58 >>}),
                 ref  |-> qf.ref]
          [] OTHER -> NewQ(h, [DefaultOptions EXCEPT !.style = "shell_always"])

\* SpecFacade: one process making up to MaxCalls calls of facade operations,
\* the host having given defaultQuotingOptions a style before.
\* Bytes: a and the colon.
FacadeBytes == {97, 58}

FacadeDefaultStyles == {"literal", "shell_escape", "c"}

\* @ for quotearg_char
FacadeChars == {<< 64 >>}

FacadeStyles == {"shell", "escape"}

InitFacade ==
    /\ heap \in {ModuleObjectsWith(style) : style \in FacadeDefaultStyles}
    /\ call = [arg |-> << >>, q |-> Deref(heap, defaultQuotingOptions),
               maxResultLength |-> -1, n |-> 0, op |-> "none"]
    /\ frame = NewFrame(call.arg, call.q, call.maxResultLength, 0)
    /\ pc = "idle"
    /\ result = << >>
    /\ err = "none"
    /\ localeCharmapCache = "undefined"
    /\ probes = 0
    /\ probe = "utf-8"
    /\ wc = Null

\* a call of a facade operation: the options object is built, cloned by
\* quotearg_n_options with ELIDE_NULL_BYTES added, and the engine entered.
\* The clones of the call before are garbage by now.
FacadeCall ==
    /\ pc \in {"idle", "done", "thrown"}
    /\ call.n < MaxCalls
    /\ \E op \in FacadeOps, arg \in SeqsUpTo(FacadeBytes, MaxArgLen),
          ch \in FacadeChars, style \in FacadeStyles, marks \in ParenMarks :
          LET o == FacadeObject(SubSeq(heap, 1, 4), op, ch, style, marks)
              e == CloneWithFlags(o.heap, o.ref,
                       SetFlag(o.heap[o.ref].flags, QA_ELIDE_NULL_BYTES))
          IN  /\ heap' = e.heap
              /\ call' = [arg |-> arg, q |-> Deref(e.heap, e.ref),
                          maxResultLength |-> -1, n |-> call.n + 1,
                          op |-> op]
    /\ frame' = NewFrame(call'.arg, call'.q, call'.maxResultLength, 0)
    /\ pc' = "enter"
    /\ result' = << >>
    /\ err' = "none"
    /\ UNCHANGED << localeCharmapCache, probes, probe, wc >>

NextFacade == Enter \/ Scan \/ PostScan \/ Catch \/ FacadeCall

SpecFacade == InitFacade /\ [][NextFacade]_vars

\* the two shared objects as their readers see them
SharedOptions ==
    << Deref(heap, defaultQuotingOptions), Deref(heap, quoteQuotingOptions) >>

\* the engine runs on an object of its own, with a Set of its own, that
\* carries ELIDE_NULL_BYTES and the extra character of the operation, and
\* only that character beyond those of the object it was cloned from
PrivateClone ==
    pc # "idle" =>
        LET own == heap[Len(heap)]
        IN  /\ Len(heap) > 4
            /\ own.quoteTheseToo > 4
            /\ Deref(heap, Len(heap)) = call.q
            /\ HasFlag(call.q.flags, QA_ELIDE_NULL_BYTES)
            /\ call.q.quoteTheseToo =
                 CASE call.op \in {"quotearg_colon", "quotef"} -> {<< 58 >>}
                   [] call.op = "quotearg_char" -> {<< 64 >>}
                   [] OTHER -> {}

\* C23: every facade operation runs the engine on a private clone carrying
\* ELIDE_NULL_BYTES and any extra quoted character, and no step of any
\* sequence of facade calls changes the style, flags, quoteTheseToo members,
\* marks or replacement of defaultQuotingOptions and quoteQuotingOptions: the
\* extra character of one call is not there for the next.
C23_SharedOptionsKept ==
    /\ []PrivateClone
    /\ [][SharedOptions' = SharedOptions]_vars

\* quotearg has returned a:a unescaped right after a call of quotearg_colon
C23_Witness ==
    /\ call.n >= 2
    /\ call.op = "quotearg"
    /\ pc = "done"
    /\ call.arg = << 97, 58, 97 >>
    /\ result = << 97, 58, 97 >>
    /\ heap[defaultQuotingOptions].style = "literal"

\* ---------------------------------------------------------------- C24
\* SpecRetry: calls with every style, with and without ELIDE_OUTER_QUOTES,
\* quoteTheseToo and a replacement.  Bytes: NUL ' : a.
RetryBytes == {0, 39, 58, 97}

RetrySpecOptions ==
    OptionsOf(quotingStyles, {0, 2, 7}, {{}, {<< 58 >>}}, NoMarks,
              {null, << 63 >>})
    \cup OptionsOf({"custom"}, {0, 2, 7}, {{}, {<< 58 >>}}, ParenMarks,
                   {null, << 63 >>})

InitRetry ==
    InitEngine(SeqsUpTo(RetryBytes, MaxArgLen), RetrySpecOptions, {-1},
               {"utf-8"})

SpecRetry == InitRetry /\ [][NextEngine]_vars

\* the attempt has raised the retry signal and stands in its catch block
SignalCaught == pc = "catch" /\ frame.sig = "force_outer_quoting_style"

\* the revised configuration, field by field
Revised ==
    [style |-> IF frame.quoting_style = "shell_always"
                  /\ frame.backslash_escapes
               THEN "shell_escape_always" ELSE frame.quoting_style,
     flags |-> ClearFlag(frame.q.flags, QA_ELIDE_OUTER_QUOTES),
     quoteTheseToo |-> {},
     leftQuote |-> frame.q.leftQuote,
     rightQuote |-> frame.q.rightQuote,
     replacement |-> frame.q.replacement]

\* how the top-level call ends
CallOutcome ==
    quotearg_buffer_restyled(call.arg, call.q, call.maxResultLength, 0,
                             "undefined", probe)

\* how the engine ends at recursionDepth + 1 with the revised configuration
RevisedOutcome ==
    quotearg_buffer_restyled(frame.arg, Revised, frame.maxResultLength,
                             frame.depth + 1, localeCharmapCache, probe)

\* the signal does not leave the invocation, and the call ends as the
\* engine does for the revised configuration
RetryOutcome ==
    /\ err # "force_outer_quoting_style"
    /\ SignalCaught => RevisedOutcome = CallOutcome
    /\ pc = "done" => (~CallOutcome.thrown /\ result = CallOutcome.value)
    /\ pc = "thrown" => (CallOutcome.thrown /\ err = CallOutcome.value)

\* the step out of the catch block enters the engine anew, one level deeper,
\* with the revised configuration and an empty accumulator
RetryStep ==
    SignalCaught =>
        /\ pc' = "enter"
        /\ frame' = NewFrame(frame.arg, Revised, frame.maxResultLength,
                             frame.depth + 1)
        /\ frame'.buffer = << >>
        /\ result' = result

\* C24: a retry signal is caught in the invocation that raised it, and the
\* call's result is the engine's result at recursionDepth + 1 for the
\* revised configuration: the attempt's resolved style (shell_escape_always
\* when it was shell_always with backslash-escaping on), ELIDE_OUTER_QUOTES
\* cleared, quoteTheseToo empty, the other flags, the marks and the
\* replacement unchanged; nothing the aborted attempt stored is in it.
C24_RetryRevised ==
    /\ []RetryOutcome
    /\ [][RetryStep]_vars

\* style shell_escape with quoteTheseToo {:} has stored a, met the colon and
\* returned 'a:' from the retry with style shell_escape_always
C24_Witness ==
    /\ call.q.style = "shell_escape"
    /\ call.q.quoteTheseToo = {<< 58 >>}
    /\ call.q.flags = 7
    /\ call.arg = << 97, 58 >>
    /\ pc = "done"
    /\ frame.depth = 1
    /\ frame.q.style = "shell_escape_always"
    /\ frame.q.flags = 5
    /\ frame.q.quoteTheseToo = {}
    /\ result = << 39, 97, 58, 39 >>

\* ---------------------------------------------------------------- C25
\* SpecReplacement: calls with the styles that leave backslash-escaping off,
\* with and without a replacement character.
\* Bytes: a, the control character 01, the lone byte 80, and C2 (C2 80 is
\* U+0080, a control character of two bytes).
ReplacementBytes == {97, 1, 128, 194}

InitReplacement ==
    InitEngine(SeqsUpTo(ReplacementBytes, MaxArgLen),
               OptionsOf({"literal", "shell", "shell_always"},
                         {0, QA_ELIDE_OUTER_QUOTES}, {{}}, NoMarks,
                         {null, << 63 >>}),
               {-1}, {"utf-8"})

SpecReplacement == InitReplacement /\ [][NextEngine]_vars

\* the bytes the switch has no case for
InDefaultCase(b) ==
    b \notin {0, 63, 92, 10, 13, 9, 7, 8, 12, 11, 123, 125, 35, 126, 32, 39}
             \cup ShellSpecial \cup NormalChars

\* the scan stands at a span the decoder reports as unprintable or
\* undecodable, backslash-escaping is off and a replacement is configured
AtReplacedSpan ==
    /\ pc = "scan"
    /\ frame.i < Len(frame.arg)
    /\ InDefaultCase(At(frame.arg, frame.i))
    /\ ~frame.backslash_escapes
    /\ frame.q.replacement # null
    /\ LET r == utf8ToWideChar(frame.arg, frame.i)
       IN  /\ r # Null
           /\ HasString(r) => ~iswprint(r.currentString)

\* the step stores one replacement character and leaves the whole span
\* behind
ReplacementStep ==
    AtReplacedSpan =>
        /\ pc' = "scan"
        /\ frame'.buffer = Append(frame.buffer, frame.q.replacement)
        /\ frame'.i
             = frame.i + utf8ToWideChar(frame.arg, frame.i).currentBytes

\* C25: with backslash-escaping off and a replacement character configured,
\* each unprintable or undecodable span the decoder reports is emitted as
\* exactly one replacement character, however many bytes the span holds.
C25_OneReplacementPerSpan == [][ReplacementStep]_vars

\* ---------------------------------------------------------------- C26
\* SpecRightQuote: calls with the styles that have a quote string and
\* backslash-escaping, the marks being of one byte ("), of two characters
\* (::) and of three bytes (U+2019 under a UTF-8 charmap).
\* Bytes: a " : and E2 80 99, the UTF-8 form of U+2019.
RightQuoteBytes == {97, 34, 58, 226, 128, 153}

\* :: as both custom marks
ColonMarks == {<< << 58, 58 >>, << 58, 58 >> >>}

InitRightQuote ==
    InitEngine(SeqsUpTo(RightQuoteBytes, MaxArgLen),
               OptionsOf({"c", "locale", "clocale"},
                         {0, QA_ELIDE_OUTER_QUOTES}, {{}}, NoMarks, {null})
               \cup OptionsOf({"custom"}, {0, QA_ELIDE_OUTER_QUOTES}, {{}},
                              ColonMarks, {null}),
               {-1}, {"utf-8"})

SpecRightQuote == InitRightQuote /\ [][NextEngine]_vars

\* the UTF-8 bytes of a string
RECURSIVE Utf8Bytes(_)
Utf8Bytes(str) ==
    IF str = << >> THEN << >>
    ELSE Utf8Encode(Head(str)) \o Utf8Bytes(Tail(str))

\* the scan stands where the input bytes equal the quote string, with
\* backslash-escaping on and a resolved style other than shell_always
AtQuoteString ==
    /\ pc = "scan"
    /\ frame.i < Len(frame.arg)
    /\ frame.backslash_escapes
    /\ frame.quoting_style # "shell_always"
    /\ frame.quote_string \notin {undefined, << >>}
    /\ LET bytes == Utf8Bytes(frame.quote_string)
       IN  /\ frame.i + Len(bytes) <= Len(frame.arg)
           /\ SubSeq(frame.arg, frame.i + 1, frame.i + Len(bytes)) = bytes

\* the position is taken for a right quote: a retry under elision, a
\* backslash and then the character otherwise
RightQuoteStep ==
    AtQuoteString =>
        IF frame.elide_outer_quotes
        THEN /\ pc' = "catch"
             /\ frame'.sig = "force_outer_quoting_style"
             /\ frame'.buffer = frame.buffer
        ELSE /\ pc' = "scan"
             /\ frame'.buffer
                  = frame.buffer
                    \o << << 92 >>, << Head(frame.quote_string) >> >>

\* C26: at every scan position where backslash-escaping is on, the resolved
\* style is not shell_always and the input bytes equal the non-empty quote
\* string, of whatever byte length, the position is flagged as right quote:
\* under elision the attempt is retried, without it the character is
\* emitted after a backslash.
C26_RightQuoteFlagged == [][RightQuoteStep]_vars

\* ---------------------------------------------------------------- C27
\* SpecBrace: calls with every style, with and without ELIDE_OUTER_QUOTES.
\* Bytes: # ~ { } and a.
BraceBytes == {35, 126, 123, 125, 97}

InitBrace ==
    InitEngine(SeqsUpTo(BraceBytes, MaxArgLen),
               OptionsOf(quotingStyles, {0, QA_ELIDE_OUTER_QUOTES}, {{}},
                         NoMarks, {null})
               \cup OptionsOf({"custom"}, {0, QA_ELIDE_OUTER_QUOTES}, {{}},
                              ParenMarks, {null}),
               {-1}, {"utf-8"})

SpecBrace == InitBrace /\ [][NextEngine]_vars

\* the scan stands at a # or ~ at position 0, or at a { or } that is the
\* whole input
AtMarkerChar ==
    /\ pc = "scan"
    /\ frame.i < Len(frame.arg)
    /\ \/ At(frame.arg, frame.i) \in {35, 126} /\ frame.i = 0
       \/ At(frame.arg, frame.i) \in {123, 125} /\ Len(frame.arg) = 1

\* the character is flagged as compatible and stored as it is: no retry
\* and no escape come of it
MarkerStep ==
    AtMarkerChar =>
        /\ frame'.c_and_shell_quote_compat
        /\ frame'.sig = "none"
        /\ pc' = "scan"
        /\ frame'.buffer = Append(frame.buffer, << At(frame.arg, frame.i) >>)

\* C27: a # or ~ at position 0, and a { or } in a buffer of length 1, are
\* flagged as compatible with both C and shell quoting, and the step makes
\* no other escaping decision: it adds no escape and forces no retry.
C27_MarkersOnlyFlagged == [][MarkerStep]_vars

\* ---------------------------------------------------------------- C28
\* SpecCap: calls with every style and a cap of 0 to MaxCap output units.
\* Bytes: NUL ' a and the lone byte 80.
MaxCap == 3

CapBytes == {0, 39, 97, 128}

InitCap ==
    InitEngine(SeqsUpTo(CapBytes, MaxArgLen),
               OptionsOf(quotingStyles, {0, QA_ELIDE_OUTER_QUOTES}, {{}},
                         NoMarks, {null})
               \cup OptionsOf({"custom"}, {0, QA_ELIDE_OUTER_QUOTES}, {{}},
                              ParenMarks, {null}),
               0..MaxCap, {"utf-8"})

SpecCap == InitCap /\ [][NextEngine]_vars

\* what the same call stores when it is run with no cap
UncappedUnits ==
    StoredUnits(call.arg, call.q, -1, 0, "undefined", probe)

\* the first n units of a sequence of units
FirstUnits(units, n) == SubSeq(units, 1, Min2(n, Len(units)))

\* C28: a cap n >= 0 causes no error and only truncates: the call throws
\* only when the call with no cap throws, and otherwise returns the
\* concatenation of the first n output units that the call with no cap
\* stores, retries and minimization included.
C28_CapOnlyTruncates ==
    (call.maxResultLength >= 0 /\ pc \in {"done", "thrown"}) =>
        /\ pc = "thrown" <=> UncappedUnits.thrown
        /\ pc = "thrown" => err = UncappedUnits.value
        /\ pc = "done" =>
            result = Join(FirstUnits(UncappedUnits.value,
                                     call.maxResultLength))

\* style shell on a' with cap 2 has returned "a, the first two of the four
\* units of "a'" that the minimization stores
C28_Witness ==
    /\ call.q.style = "shell"
    /\ call.arg = << 97, 39 >>
    /\ call.maxResultLength = 2
    /\ pc = "done"
    /\ frame.depth = 2
    /\ Len(UncappedUnits.value) = 4
    /\ result = << 34, 97 >>

\* ---------------------------------------------------------------- C29
\* SpecElide: calls whose first attempt resolves to shell_always with
\* elision: styles shell and shell_escape, and the two always-styles with
\* ELIDE_OUTER_QUOTES.  The inputs are short, the alphabet is wide.
MaxElideLen == 2

\* space ! " $ & ( ) * ; < = > [ ^ ` | ' ? backslash LF CR TAB
ElisionUnsafe ==
    {32, 39, 63, 92, 10, 13, 9} \cup ShellSpecial

\* the unsafe characters and a
ElideBytes == ElisionUnsafe \cup {97}

InitElide ==
    InitEngine(SeqsUpTo(ElideBytes, MaxElideLen),
               OptionsOf({"shell", "shell_escape"}, {0}, {{}}, NoMarks,
                         {null})
               \cup OptionsOf({"shell_always", "shell_escape_always"},
                              {QA_ELIDE_OUTER_QUOTES}, {{}}, NoMarks, {null}),
               {-1}, {"utf-8"})

SpecElide == InitElide /\ [][NextEngine]_vars

\* the attempt resolved to shell_always with elision active
ElidingShell ==
    frame.quoting_style = "shell_always" /\ frame.elide_outer_quotes

\* the scan of an eliding shell attempt stands at an unsafe character
AtUnsafeChar ==
    /\ pc = "scan"
    /\ frame.i < Len(frame.arg)
    /\ ElidingShell
    /\ At(frame.arg, frame.i) \in ElisionUnsafe

\* the retry signal is raised and the accumulator is as it was
UnsafeStep ==
    AtUnsafeChar =>
        /\ pc' = "catch"
        /\ frame'.sig = "force_outer_quoting_style"
        /\ frame'.buffer = frame.buffer

\* an eliding shell attempt that returned had none of them in its input
ElidedResult ==
    (pc = "done" /\ ElidingShell) =>
        \A k \in 1..Len(frame.arg) : frame.arg[k] \notin ElisionUnsafe

\* C29: in an attempt resolved to shell_always with elision active, meeting
\* any of space ! " $ & ( ) * ; < = > [ ^ ` | ' ? backslash newline
\* carriage-return tab raises the retry signal before anything is stored for
\* the character; a result that an eliding shell or shell_escape attempt
\* returns comes from an input with none of them.
C29_UnsafeForcesRetry ==
    /\ []ElidedResult
    /\ [][UnsafeStep]_vars

\* style shell has stored a, met the space after it and raised the signal
C29_Witness ==
    /\ call.q.style = "shell"
    /\ call.arg = << 97, 32 >>
    /\ pc = "catch"
    /\ frame.sig = "force_outer_quoting_style"
    /\ frame.i = 1
    /\ frame.buffer = << << 97 >> >>
    /\ ElidingShell

\* ---------------------------------------------------------------- C30
\* SpecEscapeRun: calls with every style, with and without
\* ELIDE_OUTER_QUOTES.  Bytes: NUL ESC ' a.
EscapeRunBytes == {0, 27, 39, 97}

InitEscapeRun ==
    InitEngine(SeqsUpTo(EscapeRunBytes, MaxArgLen),
               OptionsOf(quotingStyles, {0, QA_ELIDE_OUTER_QUOTES}, {{}},
                         NoMarks, {null})
               \cup OptionsOf({"custom"}, {0, QA_ELIDE_OUTER_QUOTES}, {{}},
                              ParenMarks, {null}),
               {-1}, {"utf-8"})

SpecEscapeRun == InitEscapeRun /\ [][NextEngine]_vars

\* the units that open and close a $'...' run: '$' opens, '' closes, and so
\* does the '\' of an input single quote
Opener == << 39, 36, 39 >>

Closers == {<< 39, 39 >>, << 39, 92, 39 >>}

\* the index of the last unit of the set S in units, 0 when there is none
LastOf(units, S) ==
    LET at == {k \in 1..Len(units) : units[k] \in S}
    IN  IF at = {} THEN 0 ELSE CHOOSE k \in at : \A j \in at : j <= k

\* a run is open at the end of units
RunOpen(units) == LastOf(units, {Opener}) > LastOf(units, Closers)

\* between two openers there is a closer
Alternate(units) ==
    \A j, k \in 1..Len(units) :
        (j < k /\ units[j] = Opener /\ units[k] = Opener) =>
            \E m \in (j + 1)..(k - 1) : units[m] \in Closers

\* the closer '' stands right before an unescaped character: a unit follows
\* it that is neither a backslash nor an opener nor a closer
CloserBeforeChar(units) ==
    \A k \in 1..Len(units) :
        units[k] = << 39, 39 >> =>
            /\ k < Len(units)
            /\ units[k + 1] \notin {<< 92 >>, Opener} \cup Closers

\* C30: pending_shell_escape_end is true only in attempts resolved to
\* shell_always with backslash-escaping on and elision off; there it is
\* true exactly while a run opened by '$' is not yet closed; two openers
\* never follow each other without a closer between them, the closer ''
\* stands right before the next unescaped character, and a run still open
\* at the end of the scan is closed by the final closing quote.
C30_EscapeRuns ==
    /\ frame.pending_shell_escape_end =>
        /\ frame.quoting_style = "shell_always"
        /\ frame.backslash_escapes
        /\ ~frame.elide_outer_quotes
    /\ frame.quoting_style = "shell_always" =>
        /\ Alternate(frame.buffer)
        /\ CloserBeforeChar(frame.buffer)
        /\ pc \in {"scan", "catch"} =>
            (frame.pending_shell_escape_end <=> RunOpen(frame.buffer))
        /\ (pc = "done" /\ frame.pending_shell_escape_end) =>
            /\ frame.buffer[Len(frame.buffer)] = << 39 >>
            /\ RunOpen(SubSeq(frame.buffer, 1, Len(frame.buffer) - 1))

\* style shell_escape_always has returned ''$'\033''a'$'\033' for ESC a ESC:
\* the first run closed by '' before the a, the second by the final quote
C30_Witness ==
    /\ call.q.style = "shell_escape_always"
    /\ call.q.flags = 0
    /\ call.arg = << 27, 97, 27 >>
    /\ pc = "done"
    /\ frame.pending_shell_escape_end
    /\ frame.buffer
         = << << 39 >>, Opener, << 92 >>, << 48, 51, 51 >>, << 39, 39 >>,
              << 97 >>, Opener, << 92 >>, << 48, 51, 51 >>, << 39 >> >>

====
